---- MODULE Spec2Model ----
(***************************************************************************)
(* A model of the relational-database emulator of backend/app/database.py  *)
(* (class DatabaseEngine) and of the cell-update endpoint of               *)
(* backend/app/main.py.                                                    *)
(*                                                                         *)
(* Statements are modelled in parsed form: a record that holds what the    *)
(* handler's regular expressions extract from the statement text.  Where   *)
(* a regular expression decides whether a clause is seen at all (the WHERE *)
(* pattern of SELECT), the record keeps the part of the text that decides  *)
(* it.  Scalars keep their Python type, because the engine compares some   *)
(* values with == and others through str().                                *)
(***************************************************************************)
EXTENDS Integers, Sequences, FiniteSets, TLC

VARIABLES
    databases,        \* DatabaseEngine.databases: insertion-ordered dict, as a sequence of DatabaseState
    current_db_name,  \* DatabaseEngine.current_db_name
    storage,          \* the content of rdbms_storage.json
    stmt,             \* the request handled last: a SELECT whole, any other by kind and table
    result,           \* the QueryResult (or API outcome) of that request
    requests          \* the requests to /databases/{name}/query received and not yet answered

vars == <<databases, current_db_name, storage, stmt, result, requests>>

(***************************************************************************)
(* Bounds of the model.                                                    *)
(***************************************************************************)
MaxRows == 2      \* INSERT and create-table are explored while a table holds fewer rows than this
MaxId == 3        \* auto-increment values are explored up to this value
MaxTuples == 2    \* value rows of one INSERT statement
MaxBatch == 3        \* statements in one call of execute_sql

(***************************************************************************)
(* Scalars.  A Python scalar is a record: t is its type, n its number      *)
(* (for int and bool), s its text (for str).                               *)
(***************************************************************************)
Null == [t |-> "null", n |-> 0, s |-> ""]
IntV(i) == [t |-> "int", n |-> i, s |-> ""]
StrV(x) == [t |-> "str", n |-> 0, s |-> x]
BoolV(b) == [t |-> "bool", n |-> IF b THEN 1 ELSE 0, s |-> ""]

IsNull(v) == v.t = "null"
IsNumber(v) == v.t \in {"int", "bool"}     \* isinstance(v, (int, float)); bool is an int

\* Python ==: numbers compare by number (True == 1), text by text, None only to None.
PyEq(a, b) ==
    \/ IsNumber(a) /\ IsNumber(b) /\ a.n = b.n
    \/ a.t = "str" /\ b.t = "str" /\ a.s = b.s
    \/ IsNull(a) /\ IsNull(b)

Digits == 0..9
\* the integers whose text the model knows: the digits, minus one and the
\* seeded department ids
Numbers == Digits \cup {-1, 101, 102, 103}
\* str() of an integer
IntToStr(i) ==
    CASE i = 0 -> "0" [] i = 1 -> "1" [] i = 2 -> "2" [] i = 3 -> "3" [] i = 4 -> "4"
      [] i = 5 -> "5" [] i = 6 -> "6" [] i = 7 -> "7" [] i = 8 -> "8" [] i = 9 -> "9"
      [] i = 101 -> "101" [] i = 102 -> "102" [] i = 103 -> "103"
      [] i = -1 -> "-1"
      [] OTHER -> "many"

\* str(v)
PyStr(v) ==
    CASE v.t = "null" -> "None"
      [] v.t = "int" -> IntToStr(v.n)
      [] v.t = "bool" -> (IF v.n = 1 THEN "True" ELSE "False")
      [] OTHER -> v.s

\* float(text) succeeds
IsNumericText(x) == x \in {"1.0", "2.0"} \/ \E i \in Numbers : IntToStr(i) = x
\* int(float(text))
TextToInt(x) ==
    CASE x = "1.0" -> 1
      [] x = "2.0" -> 2
      [] OTHER -> CHOOSE i \in Numbers : IntToStr(i) = x

\* text.upper(), for the literals the engine tests in upper case
Upper(x) ==
    CASE x \in {"null", "Null", "NULL"} -> "NULL"
      [] x \in {"true", "True", "TRUE"} -> "TRUE"
      [] x \in {"yes", "Yes", "YES"} -> "YES"
      [] OTHER -> x

\* What the value pattern ([^;\s]+) of a WHERE condition takes from a literal
\* and .strip("'\"") leaves of it: the text up to the first blank.
Token(text) ==
    CASE text = "a b" -> "a"
      [] OTHER -> text

(***************************************************************************)
(* Schema records (models.py).                                             *)
(***************************************************************************)
NoRef == [tableId |-> "", columnId |-> ""]      \* references = None

ColumnSchema(id, name, type, nullable, defaultValue, pk, unique, fk, auto, refs) ==
    [id |-> id, name |-> name, type |-> type, nullable |-> nullable,
     defaultValue |-> defaultValue, isPrimaryKey |-> pk, isUnique |-> unique,
     isForeignKey |-> fk, autoIncrement |-> auto, references |-> refs]

TableSchema(id, name, columns, rows) ==
    [id |-> id, name |-> name, columns |-> columns, rows |-> rows]

DatabaseState(name, tables) == [name |-> name, tables |-> tables]

NoCount == -1     \* affectedRows = None

QueryResult(success, message, data, affectedRows) ==
    [success |-> success, message |-> message, data |-> data, affectedRows |-> affectedRows]

(***************************************************************************)
(* Sequence and dict helpers.                                              *)
(***************************************************************************)
Range(f) == {f[i] : i \in DOMAIN f}

\* [x for x in seq if Keep(x)]
RECURSIVE SelectIdx(_, _)
SelectIdx(seq, keep) ==
    IF seq = <<>> THEN <<>>
    ELSE LET n == Len(seq)
             front == SelectIdx(SubSeq(seq, 1, n - 1), keep)
         IN IF n \in keep THEN Append(front, seq[n]) ELSE front

\* row.get(name): None when the key is absent
Get(row, name) == IF name \in DOMAIN row THEN row[name] ELSE Null

\* row[name] = v
Put(row, name, v) == [c \in DOMAIN row \cup {name} |-> IF c = name THEN v ELSE row[c]]

\* {**a, **b}
Merge(a, b) == [c \in DOMAIN a \cup DOMAIN b |-> IF c \in DOMAIN b THEN b[c] ELSE a[c]]

EmptyRow == [c \in {} |-> Null]

\* a == b for two rows (dicts)
PyRowEq(a, b) == DOMAIN a = DOMAIN b /\ \A c \in DOMAIN a : PyEq(a[c], b[c])

\* index of the first table named name in a table list, 0 when there is none
TableIndex(tables, name) ==
    IF \E i \in DOMAIN tables : tables[i].name = name
    THEN CHOOSE i \in DOMAIN tables : tables[i].name = name
                                      /\ \A j \in 1..(i - 1) : tables[j].name # name
    ELSE 0

\* index of the first column named name in a column list, 0 when there is none
ColumnIndex(columns, name) ==
    IF \E i \in DOMAIN columns : columns[i].name = name
    THEN CHOOSE i \in DOMAIN columns : columns[i].name = name
                                       /\ \A j \in 1..(i - 1) : columns[j].name # name
    ELSE 0

\* index of database name in the registry, 0 when absent
DbIndex(dbs, name) ==
    IF \E i \in DOMAIN dbs : dbs[i].name = name
    THEN CHOOSE i \in DOMAIN dbs : dbs[i].name = name
    ELSE 0

\* what stmt keeps of a request that is no SELECT
Brief(s) == [kind |-> s.kind, table |-> s.table]

\* self.databases[self.current_db_name].tables
CurrentTables == databases[DbIndex(databases, current_db_name)].tables

\* the registry with the table list of the current database replaced
WithTables(tables) ==
    [databases EXCEPT ![DbIndex(databases, current_db_name)].tables = tables]

(***************************************************************************)
(* Constraint enforcer: DatabaseEngine._check_integrity_constraints.       *)
(* The result is the message of the ValueError raised, "" when none is.    *)
(***************************************************************************)
MsgNotNull == "cannot be NULL"
MsgDuplicate == "Duplicate entry"
MsgForeignKey == "Foreign key constraint fails"

\* the NOT NULL loop raises
NotNullFails(table, new_row, is_insert) ==
    \E i \in DOMAIN table.columns :
        LET col == table.columns[i]
        IN /\ ~(is_insert /\ col.autoIncrement /\ IsNull(Get(new_row, col.name)))
           /\ ~col.nullable
           /\ IsNull(Get(new_row, col.name))

\* the UNIQUE loop raises
UniqueFails(table, new_row) ==
    \E i \in DOMAIN table.columns :
        LET col == table.columns[i]
            col_value == Get(new_row, col.name)
        IN /\ col.isPrimaryKey \/ col.isUnique
           /\ ~IsNull(col_value)
           /\ \E j \in DOMAIN table.rows : PyEq(Get(table.rows[j], col.name), col_value)

\* the FOREIGN KEY loop raises
ForeignKeyFails(tables, table, new_row) ==
    \E i \in DOMAIN table.columns :
        LET col == table.columns[i]
            fk_value == Get(new_row, col.name)
            ri == TableIndex(tables, col.references.tableId)
        IN /\ col.isForeignKey /\ col.references # NoRef
           /\ ~IsNull(fk_value)
           /\ ri # 0
           /\ ~\E j \in DOMAIN tables[ri].rows :
                  PyEq(Get(tables[ri].rows[j], col.references.columnId), fk_value)

CheckIntegrityConstraints(tables, table, new_row, is_insert) ==
    IF NotNullFails(table, new_row, is_insert) THEN MsgNotNull
    ELSE IF UniqueFails(table, new_row) THEN MsgDuplicate
    ELSE IF ForeignKeyFails(tables, table, new_row) THEN MsgForeignKey
    ELSE ""

(***************************************************************************)
(* INSERT: DatabaseEngine._handle_insert.                                  *)
(***************************************************************************)
MsgTableNotFound == "Table not found"
MsgTypeError == "TypeError"
MsgKeyError == "KeyError"

\* the type conversion of one supplied value (database.py 737-755)
CoerceInsert(columns, col_name, val) ==
    IF Upper(val) = "NULL" THEN Null
    ELSE LET ci == ColumnIndex(columns, col_name)
         IN IF ci = 0 THEN StrV(val)
            ELSE IF columns[ci].type \in {"INT", "DECIMAL"}
                 THEN (IF IsNumericText(val) THEN IntV(TextToInt(val)) ELSE StrV(val))
            ELSE IF columns[ci].type = "BOOLEAN"
                 THEN BoolV(Upper(val) \in {"TRUE", "1", "YES"})
            ELSE StrV(val)

\* new_row after the loop over zip(cols, vals): a later pair overwrites an earlier one
SuppliedRow(columns, cols, vals) ==
    LET n == IF Len(cols) < Len(vals) THEN Len(cols) ELSE Len(vals)
        last(c) == CHOOSE i \in 1..n : cols[i] = c /\ \A j \in (i + 1)..n : cols[j] # c
    IN [c \in {cols[i] : i \in 1..n} |-> CoerceInsert(columns, c, vals[last(c)])]

\* the first column with autoIncrement set, 0 when there is none
AutoIncIndex(columns) ==
    IF \E i \in DOMAIN columns : columns[i].autoIncrement
    THEN CHOOSE i \in DOMAIN columns : columns[i].autoIncrement
                                       /\ \A j \in 1..(i - 1) : ~columns[j].autoIncrement
    ELSE 0

\* existing_ids (database.py 760)
ExistingIds(rows, name) ==
    SelectIdx([j \in DOMAIN rows |-> Get(rows[j], name)],
              {j \in DOMAIN rows : ~IsNull(Get(rows[j], name))})

\* max(existing_ids, default=0) + 1 raises TypeError as soon as a text is among the ids
AutoIncRaises(ids) == \E j \in DOMAIN ids : ids[j].t = "str"

\* a generator that counts the existing values instead of taking their maximum
NextIdByCount(ids) == Len(ids) + 1

NextId(ids) ==
    IF ids = <<>> THEN 1
    ELSE (CHOOSE m \in {ids[j].n : j \in DOMAIN ids} : \A j \in DOMAIN ids : ids[j].n <= m) + 1

\* One value row of an INSERT, up to the append: the stored row, or the error raised.
InsertRow(tables, ti, cols, vals) ==
    LET table == tables[ti]
        supplied == SuppliedRow(table.columns, cols, vals)
        ai == AutoIncIndex(table.columns)
        generate == ai # 0 /\ table.columns[ai].name \notin DOMAIN supplied
        ids == ExistingIds(table.rows, table.columns[ai].name)
        with_id == IF generate
                   THEN Put(supplied, table.columns[ai].name, IntV(NextId(ids)))
                   ELSE supplied
        missing == {i \in DOMAIN table.columns : table.columns[i].name \notin DOMAIN with_id}
        filled == [c \in DOMAIN with_id \cup {table.columns[i].name : i \in missing} |->
                     IF c \in DOMAIN with_id THEN with_id[c]
                     ELSE table.columns[ColumnIndex(table.columns, c)].defaultValue]
        err == CheckIntegrityConstraints(tables, table, filled, TRUE)
    IN IF generate /\ AutoIncRaises(ids) THEN [err |-> MsgTypeError, row |-> EmptyRow]
       ELSE IF \E i \in missing : IsNull(table.columns[i].defaultValue) /\ ~table.columns[i].nullable
            THEN [err |-> MsgNotNull, row |-> EmptyRow]
       ELSE [err |-> err, row |-> filled]

\* The loop over the value rows: rows are appended one by one, the first error ends the loop.
RECURSIVE InsertRows(_, _, _, _)
InsertRows(tables, ti, cols, tuples) ==
    IF tuples = <<>> THEN [tables |-> tables, err |-> "", inserted |-> 0]
    ELSE LET one == InsertRow(tables, ti, cols, Head(tuples))
         IN IF one.err # "" THEN [tables |-> tables, err |-> one.err, inserted |-> 0]
            ELSE LET rest == InsertRows([tables EXCEPT ![ti].rows = Append(@, one.row)],
                                        ti, cols, Tail(tuples))
                 IN [rest EXCEPT !.inserted = @ + 1]

InsertStmt(table, cols, tuples) ==
    [kind |-> "INSERT", table |-> table, cols |-> cols, tuples |-> tuples]

HandleInsert(s) ==
    LET ti == TableIndex(CurrentTables, s.table)
    IN /\ stmt' = Brief(s)
       /\ UNCHANGED requests
       /\ UNCHANGED current_db_name
       /\ IF ti = 0
          THEN /\ result' = QueryResult(FALSE, MsgTableNotFound, <<>>, NoCount)
               /\ UNCHANGED <<databases, storage>>
          ELSE LET out == InsertRows(CurrentTables, ti, s.cols, s.tuples)
               IN /\ databases' = WithTables(out.tables)
                  /\ IF out.err = ""
                     THEN /\ storage' = databases'
                          /\ result' = QueryResult(TRUE, "inserted", <<>>, out.inserted)
                     ELSE /\ UNCHANGED storage
                          /\ result' = QueryResult(FALSE, out.err, <<>>, NoCount)


(***************************************************************************)
(* WHERE clauses.  A clause is the list of its atomic conditions           *)
(* (col, op, val), val being the literal as written without its quotes,    *)
(* and the list of the connectives between them; the empty clause stands   *)
(* for a statement without WHERE.                                          *)
(***************************************************************************)
Cond(col, op, val) == [col |-> col, op |-> op, val |-> val]
Where(conds, links) == [conds |-> conds, links |-> links]
NoWhere == Where(<<>>, <<>>)

\* str(row.get(name, ''))
StrGet(row, name) == IF name \in DOMAIN row THEN PyStr(row[name]) ELSE ""

(***************************************************************************)
(* UPDATE: DatabaseEngine._handle_update.                                  *)
(***************************************************************************)
MsgColumnNotFound == "Column not found"
MsgUnsupportedWhere == "Unsupported WHERE clause in UPDATE"

\* the conversion of one SET value (database.py 822-834)
CoerceUpdate(columns, col, val) ==
    IF Upper(val) = "NULL" THEN Null
    ELSE LET ci == ColumnIndex(columns, col)
         IN IF ci # 0 /\ columns[ci].type \in {"INT", "DECIMAL"} /\ IsNumericText(val)
            THEN IntV(TextToInt(val))
            ELSE StrV(val)

\* the updates dict: a later SET part for a column overwrites an earlier one
Updates(columns, set) ==
    LET last(c) == CHOOSE i \in DOMAIN set : set[i].col = c
                                            /\ \A j \in (i + 1)..Len(set) : set[j].col # c
    IN [c \in {set[i].col : i \in DOMAIN set} |-> CoerceUpdate(columns, c, set[last(c)].val)]

\* str(where_val) after the conversion of database.py 847-853
UpdateWhereText(columns, cond) ==
    LET ci == ColumnIndex(columns, cond.col)
    IN IF ci # 0 /\ columns[ci].type \in {"INT", "DECIMAL"} /\ IsNumericText(Token(cond.val))
       THEN IntToStr(TextToInt(Token(cond.val)))
       ELSE Token(cond.val)

\* rows_to_update, as a set of positions
RowsToUpdate(table, where) ==
    IF where.conds = <<>> THEN DOMAIN table.rows
    ELSE {i \in DOMAIN table.rows :
            StrGet(table.rows[i], where.conds[1].col) = UpdateWhereText(table.columns, where.conds[1])}

\* the pattern (\w+)\s*=\s*([^;\s]+) finds an equality in the WHERE text
HasEquality(where) == \E i \in DOMAIN where.conds : where.conds[i].op = "="

\* the first equality of the WHERE text, which is the one the pattern finds
FirstEquality(where) ==
    where.conds[CHOOSE i \in DOMAIN where.conds :
                    where.conds[i].op = "=" /\ \A j \in 1..(i - 1) : where.conds[j].op # "="]

UpdateStmt(table, set, where) ==
    [kind |-> "UPDATE", table |-> table, set |-> set, where |-> where]

\* an UPDATE that hands every row it rewrites to the constraint checker,
\* against the other rows of the table, and fails on the first violation
HandleUpdateChecked(s) ==
    LET ti == TableIndex(CurrentTables, s.table)
        table == CurrentTables[ti]
        updates == Updates(table.columns, s.set)
        where == IF s.where.conds = <<>> THEN NoWhere
                 ELSE Where(<<FirstEquality(s.where)>>, <<>>)
        hit == RowsToUpdate(table, where)
        new_rows == [i \in DOMAIN table.rows |->
                       IF i \in hit THEN Merge(table.rows[i], updates) ELSE table.rows[i]]
        others(i) == [table EXCEPT !.rows = SelectIdx(new_rows, DOMAIN new_rows \ {i})]
        fail(msg) == /\ result' = QueryResult(FALSE, msg, <<>>, NoCount)
                     /\ UNCHANGED <<databases, storage>>
    IN /\ stmt' = Brief(s)
       /\ UNCHANGED requests
       /\ UNCHANGED current_db_name
       /\ IF ti = 0 THEN fail(MsgTableNotFound)
          ELSE IF \E i \in DOMAIN s.set : ColumnIndex(table.columns, s.set[i].col) = 0
               THEN fail(MsgColumnNotFound)
          ELSE IF s.where.conds # <<>> /\ ~HasEquality(s.where)
               THEN fail(MsgUnsupportedWhere)
          ELSE IF \E i \in hit :
                      CheckIntegrityConstraints(CurrentTables, others(i), new_rows[i], FALSE) # ""
               THEN fail("constraint")
          ELSE /\ databases' = WithTables([CurrentTables EXCEPT ![ti].rows = new_rows])
               /\ storage' = databases'
               /\ result' = QueryResult(TRUE, "updated", <<>>, Cardinality(hit))

HandleUpdate(s) ==
    LET ti == TableIndex(CurrentTables, s.table)
        table == CurrentTables[ti]
        updates == Updates(table.columns, s.set)
        where == IF s.where.conds = <<>> THEN NoWhere
                 ELSE Where(<<FirstEquality(s.where)>>, <<>>)
        hit == RowsToUpdate(table, where)
        new_rows == [i \in DOMAIN table.rows |->
                       IF i \in hit THEN Merge(table.rows[i], updates) ELSE table.rows[i]]
        fail(msg) == /\ result' = QueryResult(FALSE, msg, <<>>, NoCount)
                     /\ UNCHANGED <<databases, storage>>
    IN /\ stmt' = Brief(s)
       /\ UNCHANGED requests
       /\ UNCHANGED current_db_name
       /\ IF ti = 0 THEN fail(MsgTableNotFound)
          ELSE IF \E i \in DOMAIN s.set : ColumnIndex(table.columns, s.set[i].col) = 0
               THEN fail(MsgColumnNotFound)
          ELSE IF s.where.conds # <<>> /\ ~HasEquality(s.where)
               THEN fail(MsgUnsupportedWhere)
          ELSE /\ databases' = WithTables([CurrentTables EXCEPT ![ti].rows = new_rows])
               /\ storage' = databases'
               /\ result' = QueryResult(TRUE, "updated", <<>>, Cardinality(hit))

(***************************************************************************)
(* DELETE: DatabaseEngine._handle_delete.                                  *)
(***************************************************************************)
\* the pattern WHERE\s+([\w.]+)\s*=\s*([^;\s]+) matches: the condition that
\* follows WHERE is an equality
DeleteWhereMatches(where) == where.conds # <<>> /\ where.conds[1].op = "="

\* table.rows after the statement
RowsAfterDelete(table, where) ==
    IF DeleteWhereMatches(where)
    THEN SelectIdx(table.rows,
                   {i \in DOMAIN table.rows :
                      StrGet(table.rows[i], where.conds[1].col) # Token(where.conds[1].val)})
    ELSE <<>>

DeleteStmt(table, where) == [kind |-> "DELETE", table |-> table, where |-> where]

HandleDelete(s) ==
    LET ti == TableIndex(CurrentTables, s.table)
        table == CurrentTables[ti]
        kept == RowsAfterDelete(table, s.where)
    IN /\ stmt' = Brief(s)
       /\ UNCHANGED requests
       /\ UNCHANGED current_db_name
       /\ IF ti = 0
          THEN /\ result' = QueryResult(FALSE, MsgTableNotFound, <<>>, NoCount)
               /\ UNCHANGED <<databases, storage>>
          ELSE /\ databases' = WithTables([CurrentTables EXCEPT ![ti].rows = kept])
               /\ storage' = databases'
               /\ result' = QueryResult(TRUE, "deleted", <<>>, Len(table.rows) - Len(kept))

(***************************************************************************)
(* DROP TABLE: DatabaseEngine.drop_table, called from execute_sql.         *)
(***************************************************************************)
DropTableStmt(table) == [kind |-> "DROP TABLE", table |-> table]

HandleDropTable(s) ==
    /\ stmt' = Brief(s)
    /\ UNCHANGED requests
    /\ UNCHANGED current_db_name
    /\ databases' = WithTables(SelectIdx(CurrentTables,
                                         {i \in DOMAIN CurrentTables : CurrentTables[i].name # s.table}))
    /\ storage' = databases'
    /\ result' = QueryResult(TRUE, "dropped", <<>>, NoCount)

(***************************************************************************)
(* cell-update: update_cell of main.py.  It stores into the row and does   *)
(* not write the storage file.                                             *)
(***************************************************************************)
MsgDatabaseNotFound == "Database not found"
MsgRowIndex == "Row index out of bounds"

\* final_value (main.py 162-168)
CoerceCell(columns, column, value) ==
    LET ci == ColumnIndex(columns, column)
    IN IF ci # 0 /\ columns[ci].type \in {"INT", "DECIMAL"} /\ IsNumericText(value)
       THEN IntV(TextToInt(value))
       ELSE StrV(value)

CellRequest(name, table_name, row_index, column, value) ==
    [kind |-> "CELL", name |-> name, table |-> table_name, row_index |-> row_index,
     column |-> column, value |-> value]

UpdateCell(s) ==
    LET di == DbIndex(databases, s.name)
        tables == databases[di].tables
        ti == TableIndex(tables, s.table)
        final_value == CoerceCell(tables[ti].columns, s.column, s.value)
    IN /\ stmt' = Brief(s)
       /\ UNCHANGED requests
       /\ UNCHANGED storage
       /\ IF di = 0
          THEN /\ result' = QueryResult(FALSE, MsgDatabaseNotFound, <<>>, NoCount)
               /\ UNCHANGED <<databases, current_db_name>>
          ELSE /\ current_db_name' = s.name
               /\ IF ti = 0
                  THEN /\ result' = QueryResult(FALSE, MsgTableNotFound, <<>>, NoCount)
                       /\ UNCHANGED databases
                  ELSE IF s.row_index >= Len(tables[ti].rows)
                  THEN /\ result' = QueryResult(FALSE, MsgRowIndex, <<>>, NoCount)
                       /\ UNCHANGED databases
                  ELSE /\ databases' = [databases EXCEPT ![di].tables[ti].rows[s.row_index + 1] =
                                                            Put(@, s.column, final_value)]
                       /\ result' = QueryResult(TRUE, "cell updated", <<>>, NoCount)

(***************************************************************************)
(* ALTER TABLE ... ADD COLUMN: DatabaseEngine._handle_alter_table.         *)
(***************************************************************************)
MsgColumnExists == "Column already exists"
MsgUnsupportedType == "Unsupported data type"
MsgValidation == "ValidationError"
NoDefault == "<no DEFAULT>"       \* the definition has no DEFAULT clause

\* default_value (database.py 1251-1268); the result keeps its Python type
ParseDefault(text) ==
    IF text = NoDefault THEN Null
    ELSE IF Upper(text) = "TRUE" THEN BoolV(TRUE)
    ELSE IF Upper(text) = "FALSE" THEN BoolV(FALSE)
    ELSE IF IsNumericText(text) THEN IntV(TextToInt(text))
    ELSE StrV(text)

\* ColumnSchema declares defaultValue: Optional[str] (models.py 14): the
\* constructor rejects a bool or an int
DefaultIsValid(v) == v.t \in {"null", "str"}

AlterStmt(table, column, type, not_null, primary_key, default) ==
    [kind |-> "ALTER TABLE", table |-> table, column |-> column, type |-> type,
     not_null |-> not_null, primary_key |-> primary_key, default |-> default]

\* the column that ADD COLUMN appends (database.py 1271-1279)
AlterColumn(s) ==
    ColumnSchema(s.table \o "_" \o s.column, s.column, s.type, ~s.not_null,
                 ParseDefault(s.default), s.primary_key, FALSE, FALSE, FALSE, NoRef)

HandleAlterTable(s) ==
    LET ti == TableIndex(CurrentTables, s.table)
        table == CurrentTables[ti]
        default_value == ParseDefault(s.default)
        fail(msg) == /\ result' = QueryResult(FALSE, msg, <<>>, NoCount)
                     /\ UNCHANGED <<databases, storage>>
    IN /\ stmt' = Brief(s)
       /\ UNCHANGED requests
       /\ UNCHANGED current_db_name
       /\ IF ti = 0 THEN fail(MsgTableNotFound)
          ELSE IF ColumnIndex(table.columns, s.column) # 0 THEN fail(MsgColumnExists)
          ELSE IF s.type \notin {"VARCHAR", "INT", "DECIMAL", "BOOLEAN", "TIMESTAMP"}
               THEN fail(MsgUnsupportedType)
          ELSE IF ~DefaultIsValid(default_value) THEN fail(MsgValidation)
          ELSE /\ databases' = WithTables(
                     [CurrentTables EXCEPT
                        ![ti].columns = Append(@, AlterColumn(s)),
                        ![ti].rows = [i \in DOMAIN @ |-> Put(@[i], s.column, default_value)]])
               /\ storage' = databases'
               /\ result' = QueryResult(TRUE, "column added", <<>>, NoCount)

(***************************************************************************)
(* create-table and update-table: DatabaseEngine.create_table and          *)
(* DatabaseEngine.update_table, reached through main.py, which first       *)
(* points the selector at the database named in the request.               *)
(***************************************************************************)
MsgTableExists == "Table already exists"

\* the validation loop: every row is checked against a table that already holds it
RowsViolate(tables, table) ==
    IF \E i \in DOMAIN table.rows :
           CheckIntegrityConstraints(tables, table, table.rows[i], FALSE) # ""
    THEN LET i == CHOOSE k \in DOMAIN table.rows :
                     /\ CheckIntegrityConstraints(tables, table, table.rows[k], FALSE) # ""
                     /\ \A j \in 1..(k - 1) :
                            CheckIntegrityConstraints(tables, table, table.rows[j], FALSE) = ""
         IN CheckIntegrityConstraints(tables, table, table.rows[i], FALSE)
    ELSE ""

\* create_table on the table list of the current database: the new list, or the error
CreateTableIn(tables, table) ==
    IF TableIndex(tables, table.name) # 0 THEN [err |-> MsgTableExists, tables |-> tables]
    ELSE IF RowsViolate(tables, table) # "" THEN [err |-> RowsViolate(tables, table), tables |-> tables]
    ELSE [err |-> "", tables |-> Append(tables, table)]

\* the data migration of update_table (database.py 231-243): KeyError, or the new rows
MigrateRaises(old_table, new_table) ==
    \E r \in DOMAIN old_table.rows, c \in DOMAIN new_table.columns :
        \E o \in DOMAIN old_table.columns :
            /\ old_table.columns[o].id = new_table.columns[c].id
            /\ \A j \in 1..(o - 1) : old_table.columns[j].id # new_table.columns[c].id
            /\ old_table.columns[o].name \notin DOMAIN old_table.rows[r]

MigrateRow(old_table, new_table, old_row) ==
    LET byId(c) == {o \in DOMAIN old_table.columns : old_table.columns[o].id = c.id}
        first(S) == CHOOSE o \in S : \A j \in S : o <= j
        names == {new_table.columns[c].name : c \in DOMAIN new_table.columns}
        \* a later column of the same name overwrites an earlier one
        colOf(n) == new_table.columns[CHOOSE c \in DOMAIN new_table.columns :
                        /\ new_table.columns[c].name = n
                        /\ \A j \in (c + 1)..Len(new_table.columns) : new_table.columns[j].name # n]
    IN [n \in names |->
          LET c == colOf(n)
          IN IF byId(c) # {} THEN old_row[old_table.columns[first(byId(c))].name]
             ELSE IF n \in DOMAIN old_row THEN old_row[n]
             ELSE c.defaultValue]

\* an update_table without the check for name conflicts (database.py 226-228)
UpdateTableInUnchecked(tables, old_name, new_table) ==
    LET ti == TableIndex(tables, old_name)
        old_table == tables[ti]
        migrated == [new_table EXCEPT !.rows =
                        [r \in DOMAIN old_table.rows |-> MigrateRow(old_table, new_table, old_table.rows[r])]]
    IN IF ti = 0 THEN CreateTableIn(tables, new_table)
       ELSE IF MigrateRaises(old_table, new_table) THEN [err |-> MsgKeyError, tables |-> tables]
       ELSE IF RowsViolate(tables, migrated) # ""
            THEN [err |-> RowsViolate(tables, migrated), tables |-> tables]
       ELSE [err |-> "", tables |-> [tables EXCEPT ![ti] = migrated]]

UpdateTableIn(tables, old_name, new_table) ==
    LET ti == TableIndex(tables, old_name)
        old_table == tables[ti]
        migrated == [new_table EXCEPT !.rows =
                        [r \in DOMAIN old_table.rows |-> MigrateRow(old_table, new_table, old_table.rows[r])]]
    IN IF ti = 0 THEN CreateTableIn(tables, new_table)
       ELSE IF old_name # new_table.name /\ TableIndex(tables, new_table.name) # 0
            THEN [err |-> MsgTableExists, tables |-> tables]
       ELSE IF MigrateRaises(old_table, new_table) THEN [err |-> MsgKeyError, tables |-> tables]
       ELSE IF RowsViolate(tables, migrated) # ""
            THEN [err |-> RowsViolate(tables, migrated), tables |-> tables]
       ELSE [err |-> "", tables |-> [tables EXCEPT ![ti] = migrated]]

CreateTableRequest(name, schema) ==
    [kind |-> "create-table", name |-> name, table |-> schema.name, schema |-> schema]
UpdateTableRequest(name, old_name, schema) ==
    [kind |-> "update-table", name |-> name, table |-> old_name, schema |-> schema]

\* the two endpoints share their frame: 404 without the database, else select
\* it and take the outcome res of the engine's call
ApiTableCall(s, res) ==
    LET di == DbIndex(databases, s.name)
    IN /\ stmt' = Brief(s)
       /\ UNCHANGED requests
       /\ IF di = 0
          THEN /\ result' = QueryResult(FALSE, MsgDatabaseNotFound, <<>>, NoCount)
               /\ UNCHANGED <<databases, current_db_name, storage>>
          ELSE /\ current_db_name' = s.name
               /\ IF res.err # ""
                  THEN /\ result' = QueryResult(FALSE, res.err, <<>>, NoCount)
                       /\ UNCHANGED <<databases, storage>>
                  ELSE /\ databases' = [databases EXCEPT ![di].tables = res.tables]
                       /\ storage' = databases'
                       /\ result' = QueryResult(TRUE, "table saved", <<>>, NoCount)

CreateTable(s) ==
    ApiTableCall(s, CreateTableIn(databases[DbIndex(databases, s.name)].tables, s.schema))

UpdateTable(s) ==
    ApiTableCall(s, UpdateTableIn(databases[DbIndex(databases, s.name)].tables, s.table, s.schema))

(***************************************************************************)
(* CREATE TABLE: DatabaseEngine._handle_create_table.  A statement is its  *)
(* table name and its column definitions, each a name, a data type and the *)
(* constraint words found in its text.                                     *)
(***************************************************************************)
\* data_types, in the order the parser tries them
DataTypes == <<"VARCHAR", "INT", "DECIMAL", "BOOLEAN", "TIMESTAMP", "DATE", "DATETIME">>

\* models.DataType, the types a ColumnSchema accepts
SchemaTypes == {"INT", "VARCHAR", "TEXT", "DATE", "DATETIME", "DECIMAL", "BOOLEAN"}

\* the types whose pattern \b<type> finds a match in the word written in
\* upper case: the pattern asks for a word boundary before the type only,
\* so DATE is found in DATETIME and INT in INTEREST
TypesFoundIn(word) ==
    CASE word = "DATETIME" -> {"DATE", "DATETIME"}
      [] word = "interest" -> {"INT"}
      [] word \in Range(DataTypes) -> {word}
      [] OTHER -> {}

\* col_type: the first type of data_types found in the definition, "" when none is
ColType(d) ==
    LET found == {k \in DOMAIN DataTypes :
                    DataTypes[k] \in TypesFoundIn(d.name) \cup TypesFoundIn(d.type)}
    IN IF found = {} THEN ""
       ELSE DataTypes[CHOOSE k \in found : \A j \in found : k <= j]

\* what the loop raises on a column definition: no type found, or a type
\* that ColumnSchema does not accept
ColumnError(d) ==
    IF ColType(d) = "" THEN MsgUnsupportedType
    ELSE IF ColType(d) \notin SchemaTypes THEN MsgValidation
    ELSE ""

ColDef(name, type, primary_key, auto_increment, not_null, unique) ==
    [name |-> name, type |-> type, primary_key |-> primary_key,
     auto_increment |-> auto_increment, not_null |-> not_null, unique |-> unique]

CreateTableStmt(table, columns) == [kind |-> "CREATE TABLE", table |-> table, columns |-> columns]

\* the ColumnSchema of definition i of the list, counted from 0 (database.py 1127-1139)
ParsedColumn(table, i, d) ==
    ColumnSchema(table \o "_col_" \o IntToStr(i), d.name, ColType(d),
                 ~(d.primary_key \/ d.not_null), Null, d.primary_key, d.unique, FALSE,
                 d.auto_increment /\ ColType(d) = "INT", NoRef)

ParsedColumns(table, defs) == [i \in DOMAIN defs |-> ParsedColumn(table, i - 1, defs[i])]

HandleCreateTable(s) ==
    LET answer(res) ==
            IF res.err # ""
            THEN /\ result' = QueryResult(FALSE, res.err, <<>>, NoCount)
                 /\ UNCHANGED <<databases, storage>>
            ELSE /\ databases' = WithTables(res.tables)
                 /\ storage' = databases'
                 /\ result' = QueryResult(TRUE, "table created", <<>>, NoCount)
    IN /\ stmt' = Brief(s)
       /\ UNCHANGED requests
       /\ UNCHANGED current_db_name
       /\ IF \E i \in DOMAIN s.columns : ColumnError(s.columns[i]) # ""
          THEN LET i == CHOOSE k \in DOMAIN s.columns :
                            /\ ColumnError(s.columns[k]) # ""
                            /\ \A j \in 1..(k - 1) : ColumnError(s.columns[j]) = ""
               IN answer([err |-> ColumnError(s.columns[i]), tables |-> CurrentTables])
          ELSE answer(CreateTableIn(CurrentTables,
                         TableSchema(s.table, s.table, ParsedColumns(s.table, s.columns), <<>>)))

(***************************************************************************)
(* SELECT: DatabaseEngine._handle_select and its operators.                *)
(***************************************************************************)
MsgJoinedTableNotFound == "Joined table not found"
NoLimit == -1                     \* the statement has no LIMIT clause

NoJoin == [kind |-> "NONE", table |-> "", left_col |-> "", right_col |-> ""]
Join(kind, table, left_col, right_col) ==
    [kind |-> kind, table |-> table, left_col |-> left_col, right_col |-> right_col]

SelectStmt(table, join, where, limit) ==
    [kind |-> "SELECT", table |-> table, join |-> join, where |-> where, limit |-> limit]

\* Scan (database.py 363-373): a copy of every row, with the declared columns
\* the row lacks filled from the default, or with None when the column is nullable
ScanRow(columns, row) ==
    LET fill == {i \in DOMAIN columns :
                   /\ columns[i].name \notin DOMAIN row
                   /\ ~IsNull(columns[i].defaultValue) \/ columns[i].nullable}
    IN [c \in DOMAIN row \cup {columns[i].name : i \in fill} |->
          IF c \in DOMAIN row THEN row[c]
          ELSE columns[ColumnIndex(columns, c)].defaultValue]

Scan(table) == [i \in DOMAIN table.rows |-> ScanRow(table.columns, table.rows[i])]

\* a match that compares the two values as they are, a number never equal to a text
JoinMatchByValue(row1, row2, join) == PyEq(row1[join.left_col], row2[join.right_col])

\* str(row1[left_col]) == str(row2[right_col])
JoinMatch(row1, row2, join) == PyStr(row1[join.left_col]) = PyStr(row2[join.right_col])

\* row1[left_col] or row2[right_col] raises KeyError in the nested loops
JoinRaises(left_rows, right_rows, join) ==
    /\ left_rows # <<>> /\ right_rows # <<>>
    /\ \/ \E i \in DOMAIN left_rows : join.left_col \notin DOMAIN left_rows[i]
       \/ \E j \in DOMAIN right_rows : join.right_col \notin DOMAIN right_rows[j]

\* the row added for a left row without match: None under every column of the joined table
NullExtended(row1, join_table) ==
    [c \in DOMAIN row1 \cup {join_table.columns[i].name : i \in DOMAIN join_table.columns} |->
        IF \E i \in DOMAIN join_table.columns : join_table.columns[i].name = c
        THEN Null ELSE row1[c]]

\* a join that keeps matched rows only, whatever its kind
JoinedForMatched(l, row1, join_table, join) ==
    SelectIdx([j \in DOMAIN join_table.rows |->
                  [l |-> l, r |-> j, row |-> Merge(row1, join_table.rows[j])]],
              {j \in DOMAIN join_table.rows : JoinMatch(row1, join_table.rows[j], join)})

\* The rows one left row contributes to joined_data, each with the position of
\* the left row (l) and of the right row (r, 0 for the null-extended row).
JoinedFor(l, row1, join_table, join) ==
    LET hits == {j \in DOMAIN join_table.rows : JoinMatch(row1, join_table.rows[j], join)}
        pairs == SelectIdx([j \in DOMAIN join_table.rows |->
                              [l |-> l, r |-> j, row |-> Merge(row1, join_table.rows[j])]], hits)
    IN IF join.kind = "LEFT" /\ hits = {}
       THEN <<[l |-> l, r |-> 0, row |-> NullExtended(row1, join_table)]>>
       ELSE pairs

\* joined_data with the origin of every row
RECURSIVE JoinedPairs(_, _, _, _)
JoinedPairs(left_rows, n, join_table, join) ==
    IF n = 0 THEN <<>>
    ELSE JoinedPairs(left_rows, n - 1, join_table, join)
            \o JoinedFor(n, left_rows[n], join_table, join)

\* _filter_by_condition on one row (database.py 678-699)
RowSatisfies(row, cond) ==
    LET row_val == Get(row, cond.col)
        val == Token(cond.val)
    IN /\ ~IsNull(row_val)
       /\ CASE cond.op = "=" -> PyStr(row_val) = val
            [] cond.op = ">" -> IsNumber(row_val) /\ IsNumericText(val)
                                /\ row_val.n > TextToInt(val)
            [] cond.op = "<" -> IsNumber(row_val) /\ IsNumericText(val)
                                /\ row_val.n < TextToInt(val)
            [] OTHER -> FALSE

\* _filter_by_condition on a list of positions of data; a connective given as
\* condition matches no pattern and the list comes back as it is
FilterByCondition(data, idx, item) ==
    IF item.isLink THEN idx
    ELSE SelectIdx(idx, {k \in DOMAIN idx : RowSatisfies(data[idx[k]], item.cond)})

\* the list `conditions`: conditions and connectives in turn
Conditions(where) ==
    [k \in 1..(2 * Len(where.conds) - 1) |->
        IF k % 2 = 1 THEN [isLink |-> FALSE, link |-> "", cond |-> where.conds[(k + 1) \div 2]]
        ELSE [isLink |-> TRUE, link |-> where.links[k \div 2], cond |-> Cond("", "", "")]]

\* the loop of _apply_where_clause (database.py 645-662); rows are told apart by
\* their position in data, as id(row) does
RECURSIVE WhereLoop(_, _, _, _)
WhereLoop(data, conditions, res, i) ==
    IF i > Len(conditions) THEN res
    ELSE IF i + 2 <= Len(conditions) /\ conditions[i + 1].isLink
    THEN LET left_result == FilterByCondition(data, res, conditions[i])
             right_result == FilterByCondition(data, [k \in DOMAIN data |-> k], conditions[i + 2])
             both == SelectIdx(right_result,
                               {k \in DOMAIN right_result : right_result[k] \in Range(left_result)})
             extra == SelectIdx(right_result,
                                {k \in DOMAIN right_result :
                                    ~\E m \in DOMAIN left_result :
                                        PyRowEq(data[left_result[m]], data[right_result[k]])})
         IN WhereLoop(data, conditions,
                      IF conditions[i + 1].link = "AND" THEN both ELSE left_result \o extra,
                      i + 3)
    ELSE WhereLoop(data, conditions, FilterByCondition(data, res, conditions[i]), i + 1)

\* _apply_where_clause: the positions of data that are returned, in order
ApplyWhereClause(data, where) ==
    LET all == [k \in DOMAIN data |-> k]
        conditions == Conditions(where)
    IN IF Len(conditions) = 1 THEN FilterByCondition(data, all, conditions[1])
       ELSE WhereLoop(data, conditions, all, 1)

\* The WHERE pattern of SELECT, WHERE\s+(.+?)(?:\s+(ORDER|GROUP|LIMIT|$)), asks
\* for white space after the clause: a clause that ends the statement (the
\* statement text is stripped) is not matched, one followed by LIMIT is.
WhereIsSeen(s) == s.where.conds # <<>> /\ s.limit # NoLimit

\* result_data[:limit]
Truncate(rows, limit) ==
    IF limit = NoLimit \/ limit >= Len(rows) THEN rows ELSE SubSeq(rows, 1, limit)

\* The operator pipeline of _handle_select on a table list: error, or the rows returned.
SelectData(tables, s) ==
    LET ti == TableIndex(tables, s.table)
        ji == TableIndex(tables, s.join.table)
        scanned == Scan(tables[ti])
        pairs == JoinedPairs(scanned, Len(scanned), tables[ji], s.join)
        joined == IF s.join.kind = "NONE" THEN scanned ELSE [k \in DOMAIN pairs |-> pairs[k].row]
        kept == ApplyWhereClause(joined, s.where)
        filtered == IF WhereIsSeen(s) THEN [k \in DOMAIN kept |-> joined[kept[k]]] ELSE joined
    IN IF ti = 0 THEN [err |-> MsgTableNotFound, data |-> <<>>]
       ELSE IF s.join.kind # "NONE" /\ ji = 0 THEN [err |-> MsgJoinedTableNotFound, data |-> <<>>]
       ELSE IF s.join.kind # "NONE" /\ JoinRaises(scanned, tables[ji].rows, s.join)
            THEN [err |-> MsgKeyError, data |-> <<>>]
       ELSE [err |-> "", data |-> Truncate(filtered, s.limit)]

HandleSelect(s) ==
    LET out == SelectData(CurrentTables, s)
    IN /\ stmt' = s
       /\ UNCHANGED requests
       /\ UNCHANGED <<databases, current_db_name, storage>>
       /\ result' = QueryResult(out.err = "", out.err, out.data, NoCount)

(***************************************************************************)
(* SELECT COUNT-star FROM t: _handle_select with DatabaseEngine.           *)
(* _handle_aggregation on the select clause.                               *)
(***************************************************************************)
CountStmt(table) == [kind |-> "SELECT COUNT(*)", table |-> table]

\* an aggregation that hands an empty list back as it is, as _handle_group_by does
HandleAggregationOfRows(data, select_clause) ==
    IF select_clause # "COUNT(*)" \/ data = <<>> THEN data
    ELSE <<[c \in {"COUNT(*)"} |-> IntV(Len(data))]>>

\* _handle_aggregation for the select clauses * and COUNT-star (database.py 513-563)
HandleAggregation(data, select_clause) ==
    IF select_clause # "COUNT(*)" THEN data
    ELSE <<[c \in {"COUNT(*)"} |-> IntV(Len(data))]>>

HandleCount(s) ==
    LET answer(out) ==
            result' = QueryResult(out.err = "", out.err,
                                  IF out.err = "" THEN HandleAggregation(out.data, "COUNT(*)")
                                  ELSE <<>>,
                                  NoCount)
    IN /\ stmt' = s
       /\ UNCHANGED requests
       /\ UNCHANGED <<databases, current_db_name, storage>>
       /\ answer(SelectData(CurrentTables, SelectStmt(s.table, NoJoin, NoWhere, NoLimit)))

(***************************************************************************)
(* SELECT * FROM t ORDER BY c [ASC|DESC]: _handle_select with the sort of  *)
(* database.py 459-472.                                                    *)
(***************************************************************************)
\* 'z' * 100
Sentinel == "zzzzzzzzzzzzzzzzzzzzzzzzzzzzzzzzzzzzzzzzzzzzzzzzzzzzzzzzzzzzzzzzzzzzzzzzzzzzzzzzzzzzzzzzzzzzzzzzzzzz"

\* the texts the sort compares, in the order Python gives them
TextOrder == <<"", "a", "b", Sentinel>>
TextRank(x) == CHOOSE i \in DOMAIN TextOrder : TextOrder[i] = x

\* sort_key: the raw value, or '' (ascending) and the sentinel (descending) for None
SortKey(row, order_col, order_dir) ==
    LET val == Get(row, order_col)
    IN IF IsNull(val) THEN StrV(IF order_dir = "ASC" THEN "" ELSE Sentinel) ELSE val

\* k1 < k2 on two keys of the same kind
KeyLess(k1, k2) ==
    IF IsNumber(k1) THEN k1.n < k2.n ELSE TextRank(k1.s) < TextRank(k2.s)

\* list.sort raises TypeError: it has to compare a number with a text
SortRaises(data, order_col, order_dir) ==
    \E i, j \in DOMAIN data :
        IsNumber(SortKey(data[i], order_col, order_dir))
          /\ ~IsNumber(SortKey(data[j], order_col, order_dir))

\* result_data.sort(key=sort_key, reverse=reverse): stable in both directions
SortedBy(data, order_col, order_dir) ==
    LET key(i) == SortKey(data[i], order_col, order_dir)
        before(j, i) == \/ IF order_dir = "ASC" THEN KeyLess(key(j), key(i))
                                                ELSE KeyLess(key(i), key(j))
                        \/ key(j) = key(i) /\ j < i
        place(i) == 1 + Cardinality({j \in DOMAIN data : before(j, i)})
    IN [k \in DOMAIN data |-> data[CHOOSE i \in DOMAIN data : place(i) = k]]

\* an ORDER BY that sorts the rows of the table where they are stored
HandleOrderByInPlace(s) ==
    LET ti == TableIndex(CurrentTables, s.table)
        answer(out) ==
            IF out.err # "" \/ SortRaises(out.data, s.order_col, s.order_dir)
            THEN /\ result' = QueryResult(FALSE, MsgTypeError, <<>>, NoCount)
                 /\ UNCHANGED databases
            ELSE /\ result' = QueryResult(TRUE, "", SortedBy(out.data, s.order_col, s.order_dir),
                                          NoCount)
                 /\ databases' = WithTables([CurrentTables EXCEPT ![ti].rows = result'.data])
    IN /\ stmt' = s
       /\ UNCHANGED requests
       /\ UNCHANGED <<current_db_name, storage>>
       /\ answer(SelectData(CurrentTables, SelectStmt(s.table, NoJoin, NoWhere, NoLimit)))

OrderStmt(table, order_col, order_dir) ==
    [kind |-> "SELECT ORDER BY", table |-> table, order_col |-> order_col,
     order_dir |-> order_dir]

HandleOrderBy(s) ==
    LET answer(out) ==
            IF out.err # "" THEN result' = QueryResult(FALSE, out.err, <<>>, NoCount)
            ELSE IF SortRaises(out.data, s.order_col, s.order_dir)
                 THEN result' = QueryResult(FALSE, MsgTypeError, <<>>, NoCount)
            ELSE result' = QueryResult(TRUE, "", SortedBy(out.data, s.order_col, s.order_dir),
                                       NoCount)
    IN /\ stmt' = s
       /\ UNCHANGED requests
       /\ UNCHANGED <<databases, current_db_name, storage>>
       /\ answer(SelectData(CurrentTables, SelectStmt(s.table, NoJoin, NoWhere, NoLimit)))

(***************************************************************************)
(* SELECT SUM(c) FROM t and SELECT AVG(c) FROM t: _handle_select with the  *)
(* SUM and AVG branches of _handle_aggregation (database.py 536-558).      *)
(***************************************************************************)
\* a Python float, kept as the fraction n / d
FloatV(n, d) == [t |-> "float", n |-> n, s |-> "", d |-> d]

\* str(v).replace('.', '').isdigit(): digits only, so no sign and no letters
IsDigitValue(v) ==
    CASE v.t = "int" -> v.n >= 0
      [] v.t = "str" -> v.s \in {"1.0", "2.0"} \/ \E i \in Numbers : i >= 0 /\ IntToStr(i) = v.s
      [] OTHER -> FALSE

\* float(v) of a value that passed the test
FloatOf(v) == IF v.t = "str" THEN TextToInt(v.s) ELSE v.n

\* numeric_values
NumericValues(data, col) ==
    LET kept == {i \in DOMAIN data : ~IsNull(Get(data[i], col)) /\ IsDigitValue(Get(data[i], col))}
        values == SelectIdx([i \in DOMAIN data |-> Get(data[i], col)], kept)
    IN [k \in DOMAIN values |-> FloatOf(values[k])]

RECURSIVE SumOf(_)
SumOf(values) == IF values = <<>> THEN 0 ELSE Head(values) + SumOf(Tail(values))

\* the value stored under SUM(col) or AVG(col)
AggregateValue(data, func, col) ==
    LET numeric_values == NumericValues(data, col)
    IN IF numeric_values = <<>> THEN IntV(0)
       ELSE IF func = "SUM" THEN FloatV(SumOf(numeric_values), 1)
       ELSE FloatV(SumOf(numeric_values), Len(numeric_values))

AggStmt(table, func, col) ==
    [kind |-> "SELECT AGG", table |-> table, func |-> func, col |-> col]

HandleAggregate(s) ==
    LET label == s.func \o "(" \o s.col \o ")"
        answer(out) ==
            result' = QueryResult(out.err = "", out.err,
                                  IF out.err = ""
                                  THEN <<[c \in {label} |-> AggregateValue(out.data, s.func, s.col)]>>
                                  ELSE <<>>,
                                  NoCount)
    IN /\ stmt' = s
       /\ UNCHANGED requests
       /\ UNCHANGED <<databases, current_db_name, storage>>
       /\ answer(SelectData(CurrentTables, SelectStmt(s.table, NoJoin, NoWhere, NoLimit)))

(***************************************************************************)
(* SELECT * FROM t GROUP BY c: _handle_select with _handle_group_by.       *)
(***************************************************************************)
\* a grouping that answers the last row of every group
HandleGroupByLast(data, group_col) ==
    LET key(i) == Get(data[i], group_col)
    IN SelectIdx(data, {i \in DOMAIN data :
                          \A j \in (i + 1)..Len(data) : ~PyEq(key(j), key(i))})

\* _handle_group_by (database.py 565-585): the dict groups keeps its keys in
\* the order of insertion, and group_rows[0] is the row that created the key
HandleGroupBy(data, group_col) ==
    LET key(i) == Get(data[i], group_col)
    IN SelectIdx(data, {i \in DOMAIN data : \A j \in 1..(i - 1) : ~PyEq(key(j), key(i))})

GroupStmt(table, group_col) ==
    [kind |-> "SELECT GROUP BY", table |-> table, group_col |-> group_col]

HandleSelectGroupBy(s) ==
    LET answer(out) ==
            result' = QueryResult(out.err = "", out.err,
                                  IF out.err = "" THEN HandleGroupBy(out.data, s.group_col)
                                  ELSE <<>>,
                                  NoCount)
    IN /\ stmt' = s
       /\ UNCHANGED requests
       /\ UNCHANGED <<databases, current_db_name, storage>>
       /\ answer(SelectData(CurrentTables, SelectStmt(s.table, NoJoin, NoWhere, NoLimit)))

(***************************************************************************)
(* execute_sql on a batch of statements.  The engine is a record of its    *)
(* registry, its selector and the storage file; StepSql is the dispatch of *)
(* one statement (database.py 277-313) with the outcome of its handler,    *)
(* a raised exception being the failed result that execute_sql makes of it *)
(* (337-342).                                                              *)
(***************************************************************************)
NoDatabase == ""                       \* current_db_name = None
MsgDatabaseExists == "Database already exists"
MsgDatabaseMissing == "Database does not exist"
MsgUnsupportedCommand == "Unsupported SQL command"

Engine(dbs, current, file) == [databases |-> dbs, current_db_name |-> current, storage |-> file]

\* an engine with the outcome of a statement
Outcome(dbs, current, file, res) ==
    [databases |-> dbs, current_db_name |-> current, storage |-> file, result |-> res]

\* an except clause that drops the text of the exception
RaisedWithoutMessage(e, msg) ==
    Outcome(e.databases, e.current_db_name, e.storage, QueryResult(FALSE, "", <<>>, NoCount))

\* the statement raised: nothing changes
Raised(e, msg) ==
    Outcome(e.databases, e.current_db_name, e.storage, QueryResult(FALSE, msg, <<>>, NoCount))

\* the handler changed the registry and called _save_state_to_disk
Saved(dbs, current, res) == Outcome(dbs, current, dbs, res)

\* reset_database: one empty database DemoDB, saved; the selector stays
ResetRegistry == <<DatabaseState("DemoDB", <<>>)>>

\* the registry without database name
WithoutDatabase(dbs, name) == SelectIdx(dbs, {i \in DOMAIN dbs : dbs[i].name # name})

CreateDatabaseStmt(name, if_not_exists) ==
    [kind |-> "CREATE DATABASE", table |-> "", name |-> name, if_not_exists |-> if_not_exists]
DropDatabaseStmt(name) == [kind |-> "DROP DATABASE", table |-> "", name |-> name]
UseStmt(name) == [kind |-> "USE", table |-> "", name |-> name]
WordStmt(kind) == [kind |-> kind, table |-> ""]    \* a statement that is its keyword

\* a CREATE DATABASE whose IF NOT EXISTS branch returns without selecting
StepCreateDatabaseKeepsSelector(e, s) ==
    IF DbIndex(e.databases, s.name) # 0
    THEN IF s.if_not_exists
         THEN Outcome(e.databases, e.current_db_name, e.storage,
                      QueryResult(TRUE, "database exists", <<>>, NoCount))
         ELSE Raised(e, MsgDatabaseExists)
    ELSE Saved(Append(e.databases, DatabaseState(s.name, <<>>)), s.name,
               QueryResult(TRUE, "database created", <<>>, NoCount))

\* _handle_create_database and create_database
StepCreateDatabase(e, s) ==
    IF DbIndex(e.databases, s.name) # 0
    THEN IF s.if_not_exists
         THEN Outcome(e.databases, s.name, e.storage,
                      QueryResult(TRUE, "database exists", <<>>, NoCount))
         ELSE Raised(e, MsgDatabaseExists)
    ELSE Saved(Append(e.databases, DatabaseState(s.name, <<>>)), s.name,
               QueryResult(TRUE, "database created", <<>>, NoCount))

\* _handle_drop_database and drop_database
StepDropDatabase(e, s) ==
    LET remaining == WithoutDatabase(e.databases, s.name)
        dropped == QueryResult(TRUE, "database dropped", <<>>, NoCount)
    IN IF DbIndex(e.databases, s.name) = 0 THEN Raised(e, MsgDatabaseMissing)
       ELSE IF s.name # e.current_db_name THEN Saved(remaining, e.current_db_name, dropped)
       ELSE IF remaining # <<>> THEN Saved(remaining, remaining[1].name, dropped)
       ELSE Saved(ResetRegistry, "DemoDB", dropped)

\* a USE that selects without looking the name up
StepUseUnchecked(e, s) ==
    Outcome(e.databases, s.name, e.storage, QueryResult(TRUE, "database changed", <<>>, NoCount))

\* _handle_use_database
StepUse(e, s) ==
    IF DbIndex(e.databases, s.name) = 0 THEN Raised(e, MsgDatabaseMissing)
    ELSE Outcome(e.databases, s.name, e.storage,
                 QueryResult(TRUE, "database changed", <<>>, NoCount))

\* a dispatch without the transaction keywords
StepTransactionUnsupported(e, s) == Raised(e, MsgUnsupportedCommand)

\* _handle_start_transaction, _handle_commit, _handle_rollback
StepTransaction(e, s) ==
    Outcome(e.databases, e.current_db_name, e.storage, QueryResult(TRUE, s.kind, <<>>, NoCount))

\* the row of SELECT DATABASE() (database.py 1196-1202)
DatabaseRow(current) ==
    [c \in {"DATABASE()"} |-> StrV(IF current = NoDatabase THEN "NULL" ELSE current)]

\* the handlers that work on the tables of the current database
StepTables(e, s) ==
    LET di == DbIndex(e.databases, e.current_db_name)
        tables == e.databases[di].tables
        with(new_tables) == [e.databases EXCEPT ![di].tables = new_tables]
        ti == TableIndex(tables, s.table)
        done(new_tables, msg, count) ==
            Saved(with(new_tables), e.current_db_name, QueryResult(TRUE, msg, <<>>, count))
        selected(out) ==
            Outcome(e.databases, e.current_db_name, e.storage,
                    QueryResult(out.err = "", out.err, out.data, NoCount))
        inserted(out) ==
            IF out.err = "" THEN done(out.tables, "inserted", out.inserted)
            ELSE Outcome(with(out.tables), e.current_db_name, e.storage,
                         QueryResult(FALSE, out.err, <<>>, NoCount))
        deleted(kept) ==
            done([tables EXCEPT ![ti].rows = kept], "deleted", Len(tables[ti].rows) - Len(kept))
    IN CASE s.kind = "SELECT DATABASE()" ->
              Outcome(e.databases, e.current_db_name, e.storage,
                      QueryResult(TRUE, "", <<DatabaseRow(e.current_db_name)>>, NoCount))
         [] s.kind = "SELECT" -> selected(SelectData(tables, s))
         [] s.kind = "DROP TABLE" ->
              done(SelectIdx(tables, {i \in DOMAIN tables : tables[i].name # s.table}),
                   "dropped", NoCount)
         [] s.kind \in {"INSERT", "UPDATE", "DELETE"} /\ ti = 0 -> Raised(e, MsgTableNotFound)
         [] s.kind = "INSERT" /\ ti # 0 -> inserted(InsertRows(tables, ti, s.cols, s.tuples))
         [] s.kind = "UPDATE" /\ ti # 0 ->
              LET where == IF s.where.conds = <<>> \/ ~HasEquality(s.where) THEN NoWhere
                           ELSE Where(<<FirstEquality(s.where)>>, <<>>)
                  hit == RowsToUpdate(tables[ti], where)
                  updates == Updates(tables[ti].columns, s.set)
              IN IF \E i \in DOMAIN s.set : ColumnIndex(tables[ti].columns, s.set[i].col) = 0
                 THEN Raised(e, MsgColumnNotFound)
                 ELSE IF s.where.conds # <<>> /\ ~HasEquality(s.where)
                 THEN Raised(e, MsgUnsupportedWhere)
                 ELSE done([tables EXCEPT ![ti].rows =
                               [i \in DOMAIN @ |-> IF i \in hit THEN Merge(@[i], updates) ELSE @[i]]],
                           "updated", Cardinality(hit))
         [] s.kind = "DELETE" /\ ti # 0 -> deleted(RowsAfterDelete(tables[ti], s.where))

\* one statement of the batch: the dispatch on the leading keyword
StepSql(e, s) ==
    CASE s.kind = "CREATE DATABASE" -> StepCreateDatabase(e, s)
      [] s.kind = "DROP DATABASE" -> StepDropDatabase(e, s)
      [] s.kind = "USE" -> StepUse(e, s)
      [] s.kind \in {"START TRANSACTION", "COMMIT", "ROLLBACK"} -> StepTransaction(e, s)
      [] s.kind \in {"SELECT", "SELECT DATABASE()", "INSERT", "UPDATE", "DELETE", "DROP TABLE"} ->
           IF DbIndex(e.databases, e.current_db_name) = 0 THEN Raised(e, MsgKeyError)
           ELSE StepTables(e, s)
      [] OTHER -> Raised(e, MsgUnsupportedCommand)

\* a loop without the break of lines 315-317: it runs every statement
RECURSIVE RunStatementsToEnd(_, _, _)
RunStatementsToEnd(e, statements, results) ==
    IF statements = <<>>
    THEN [databases |-> e.databases, current_db_name |-> e.current_db_name,
          storage |-> e.storage, results |-> results]
    ELSE LET after(out) ==
                 RunStatementsToEnd(Engine(out.databases, out.current_db_name, out.storage),
                                    Tail(statements), Append(results, out.result))
         IN after(StepSql(e, Head(statements)))

\* The loop of execute_sql (database.py 271-317): the statements in order up
\* to the first that fails.  The outcome keeps the engine and the list results.
RECURSIVE RunStatements(_, _, _)
RunStatements(e, statements, results) ==
    IF statements = <<>>
    THEN [databases |-> e.databases, current_db_name |-> e.current_db_name,
          storage |-> e.storage, results |-> results]
    ELSE LET after(out) ==
                 RunStatements(Engine(out.databases, out.current_db_name, out.storage),
                               IF out.result.success THEN Tail(statements) ELSE <<>>,
                               Append(results, out.result))
         IN after(StepSql(e, Head(statements)))

\* the result execute_sql returns for the list results (database.py 319-342)
BatchResult(results) ==
    IF Len(results) = 1 THEN results[1]
    ELSE IF \A i \in DOMAIN results : results[i].success
    THEN QueryResult(TRUE, "statements executed successfully", <<>>, NoCount)
    ELSE results[CHOOSE i \in DOMAIN results :
                    ~results[i].success /\ \A j \in 1..(i - 1) : results[j].success]

BatchStmt(batch) == [kind |-> "BATCH", table |-> "", batch |-> batch]

ExecuteSql(batch) ==
    LET answer(out) ==
            /\ stmt' = BatchStmt(batch)
            /\ UNCHANGED requests
            /\ databases' = out.databases
            /\ current_db_name' = out.current_db_name
            /\ storage' = out.storage
            /\ result' = BatchResult(out.results)
    IN answer(RunStatements(Engine(databases, current_db_name, storage), batch, <<>>))

(***************************************************************************)
(* Specification Spec: the statement handlers and the table endpoints on   *)
(* one table.  It starts from the engine after reset (database DemoDB)     *)
(* and the statement                                                       *)
(*   CREATE TABLE t (k INT PRIMARY KEY AUTO_INCREMENT, r INT)              *)
(* with the columns as _handle_create_table builds them (database.py       *)
(* 1091-1139).                                                             *)
(***************************************************************************)
ColK == ColumnSchema("t_col_0", "k", "INT", FALSE, Null, TRUE, FALSE, FALSE, TRUE, NoRef)
ColR == ColumnSchema("t_col_1", "r", "INT", TRUE, Null, FALSE, FALSE, FALSE, FALSE, NoRef)
TableT == TableSchema("t", "t", <<ColK, ColR>>, <<>>)

Init ==
    /\ databases = <<DatabaseState("DemoDB", <<TableT>>)>>
    /\ current_db_name = "DemoDB"
    /\ storage = databases
    /\ requests = {}
    /\ stmt = [kind |-> "CREATE TABLE", table |-> "t"]
    /\ result = QueryResult(TRUE, "created", <<>>, NoCount)

\* value texts of INSERT, after the quotes are stripped
Lits == {"1", "2", "NULL"}

Tuples(n, lits) == [1..n -> lits]
TupleLists(n, lits) == UNION {[1..m -> Tuples(n, lits)] : m \in 1..MaxTuples}

InsertStmts ==
    {InsertStmt("t", <<"r">>, ts) : ts \in TupleLists(1, {"1", "NULL"})}
      \cup {InsertStmt("t", <<"k", "r">>, <<<<k, r>>>>) : k \in Lits, r \in {"1", "NULL"}}
      \cup {InsertStmt("t", <<"k">>, ts) : ts \in TupleLists(1, {"1", "2"})}
      \cup {InsertStmt("u", <<"k">>, <<<<"1">>>>)}

Wheres ==
    {NoWhere} \cup {Where(<<c>>, <<>>) :
                      c \in {Cond("k", "=", "1"), Cond("r", "=", "1"), Cond("r", "=", "None"),
                             Cond("r", ">", "1")}}

UpdateStmts ==
    {UpdateStmt("t", <<[col |-> c, val |-> v]>>, w) :
        c \in {"k", "r"}, v \in {"1", "NULL"}, w \in Wheres}
      \cup {UpdateStmt("t", <<[col |-> "zz", val |-> "1"]>>, NoWhere),
            UpdateStmt("u", <<[col |-> "k", val |-> "1"]>>, NoWhere)}

DeleteStmts == {DeleteStmt("t", w) : w \in Wheres} \cup {DeleteStmt("u", NoWhere)}

DropTableStmts == {DropTableStmt("t"), DropTableStmt("u")}

AlterStmts ==
    {AlterStmt("t", "a", "VARCHAR", FALSE, FALSE, "x"),
     AlterStmt("t", "a", "VARCHAR", TRUE, FALSE, NoDefault),
     AlterStmt("t", "a", "BOOLEAN", FALSE, FALSE, "TRUE"),
     AlterStmt("t", "a", "DATE", FALSE, FALSE, NoDefault),
     AlterStmt("t", "k", "INT", FALSE, FALSE, NoDefault),
     AlterStmt("u", "a", "INT", FALSE, FALSE, NoDefault)}

CellRequests ==
    {CellRequest("DemoDB", "t", i, "k", "1") : i \in 0..MaxRows}
      \cup {CellRequest("DemoDB", "u", 0, "k", "1"), CellRequest("nodb", "t", 0, "k", "1")}

\* table schemas given to create-table and update-table
ColS == [ColR EXCEPT !.name = "s"]                 \* column r renamed, same id
RowKR(k, r) == [c \in {"k", "r"} |-> IF c = "k" THEN k ELSE r]
ApiSchemas ==
    {TableT,
     [TableT EXCEPT !.rows = <<RowKR(IntV(1), Null)>>],
     [TableT EXCEPT !.rows = <<RowKR(Null, IntV(1))>>],
     [TableT EXCEPT !.columns = <<ColK, ColS>>]}

CreateTableRequests ==
    {CreateTableRequest("DemoDB", t) : t \in ApiSchemas} \cup {CreateTableRequest("nodb", TableT)}

UpdateTableRequests == {UpdateTableRequest("DemoDB", "t", t) : t \in ApiSchemas}

\* every table keeps at most MaxRows rows and every number stays within MaxId
WithinBounds(dbs) ==
    \A d \in DOMAIN dbs : \A i \in DOMAIN dbs[d].tables :
        /\ Len(dbs[d].tables[i].rows) <= MaxRows
        /\ \A j \in DOMAIN dbs[d].tables[i].rows :
              \A c \in DOMAIN dbs[d].tables[i].rows[j] : dbs[d].tables[i].rows[j][c].n <= MaxId

Insert == \E s \in InsertStmts : HandleInsert(s) /\ WithinBounds(databases')
Update == \E s \in UpdateStmts : HandleUpdate(s)
Delete == \E s \in DeleteStmts : HandleDelete(s)
DropTable == \E s \in DropTableStmts : HandleDropTable(s)
AlterTable == \E s \in AlterStmts : HandleAlterTable(s)
CellUpdate == \E s \in CellRequests : UpdateCell(s)
ApiCreateTable == \E s \in CreateTableRequests : CreateTable(s) /\ WithinBounds(databases')
ApiUpdateTable == \E s \in UpdateTableRequests : UpdateTable(s)

Next ==
    \/ Insert
    \/ Update
    \/ Delete
    \/ AlterTable

Spec == Init /\ [][Next]_vars

\* Specification SpecApi: the same table through the endpoints of main.py
\* and DROP TABLE, with INSERT to fill the table.
NextApi ==
    \/ \E s \in {InsertStmt("t", <<"r">>, <<<<x>>>>) : x \in {"1", "NULL"}} :
          HandleInsert(s) /\ WithinBounds(databases')
    \/ DropTable
    \/ CellUpdate
    \/ ApiCreateTable
    \/ ApiUpdateTable

SpecApi == Init /\ [][NextApi]_vars

(***************************************************************************)
(* Specification SpecFK: a referencing table.  The engine after reset and  *)
(*   CREATE TABLE p (id INT PRIMARY KEY)                                   *)
(*   CREATE TABLE c (r INT REFERENCES p(id))                               *)
(***************************************************************************)
TableP ==
    TableSchema("p", "p",
        <<ColumnSchema("p_col_0", "id", "INT", FALSE, Null, TRUE, FALSE, FALSE, FALSE, NoRef)>>,
        <<>>)

TableC ==
    TableSchema("c", "c",
        <<ColumnSchema("c_col_0", "r", "INT", TRUE, Null, FALSE, FALSE, TRUE, FALSE,
                       [tableId |-> "p", columnId |-> "id"])>>,
        <<>>)

InitFK ==
    /\ databases = <<DatabaseState("DemoDB", <<TableP, TableC>>)>>
    /\ current_db_name = "DemoDB"
    /\ storage = databases
    /\ requests = {}
    /\ stmt = [kind |-> "CREATE TABLE", table |-> "c"]
    /\ result = QueryResult(TRUE, "created", <<>>, NoCount)

FKInsertStmts ==
    {InsertStmt("p", <<"id">>, ts) : ts \in TupleLists(1, {"1", "2"})}
      \cup {InsertStmt("c", <<"r">>, ts) : ts \in TupleLists(1, Lits)}

FKDeleteStmts ==
    {DeleteStmt(t, w) : t \in {"p", "c"}, w \in {NoWhere}}
      \cup {DeleteStmt("p", Where(<<Cond("id", "=", "1")>>, <<>>))}

NextFK ==
    \/ \E s \in FKInsertStmts : HandleInsert(s) /\ WithinBounds(databases')
    \/ \E s \in FKDeleteStmts : HandleDelete(s)
    \/ \E s \in {DropTableStmt("p")} : HandleDropTable(s)

SpecFK == InitFK /\ [][NextFK]_vars

(***************************************************************************)
(* Specification SpecUpdate: UPDATE on the tables p and c of SpecFK with   *)
(* SET values that break NOT NULL, the primary key and the foreign key.    *)
(***************************************************************************)
FKUpdateStmts ==
    {UpdateStmt("p", <<[col |-> "id", val |-> v]>>, w) :
        v \in {"1", "NULL"}, w \in {NoWhere, Where(<<Cond("id", "=", "2")>>, <<>>)}}
      \cup {UpdateStmt("c", <<[col |-> "r", val |-> v]>>, w) :
              v \in {"1", "2"}, w \in {NoWhere, Where(<<Cond("r", "=", "1")>>, <<>>)}}

NextUpdate ==
    \/ \E s \in FKInsertStmts : HandleInsert(s) /\ WithinBounds(databases')
    \/ \E s \in FKUpdateStmts : HandleUpdate(s)

SpecUpdate == InitFK /\ [][NextUpdate]_vars

(***************************************************************************)
(* Specification SpecText: UPDATE and DELETE on a text column.  The engine *)
(* after reset and                                                         *)
(*   CREATE TABLE n (id INT PRIMARY KEY AUTO_INCREMENT, name VARCHAR)      *)
(***************************************************************************)
TableN ==
    TableSchema("n", "n",
        <<ColumnSchema("n_col_0", "id", "INT", FALSE, Null, TRUE, FALSE, FALSE, TRUE, NoRef),
          ColumnSchema("n_col_1", "name", "VARCHAR", TRUE, Null, FALSE, FALSE, FALSE, FALSE, NoRef)>>,
        <<>>)

InitText ==
    /\ databases = <<DatabaseState("DemoDB", <<TableN>>)>>
    /\ current_db_name = "DemoDB"
    /\ storage = databases
    /\ requests = {}
    /\ stmt = [kind |-> "CREATE TABLE", table |-> "n"]
    /\ result = QueryResult(TRUE, "created", <<>>, NoCount)

Names == {"a", "a b"}

TextInsertStmts == {InsertStmt("n", <<"name">>, <<<<x>>>>) : x \in Names \cup {"NULL"}}

TextWheres ==
    {NoWhere} \cup {Where(<<Cond("name", "=", x)>>, <<>>) : x \in Names}
              \cup {Where(<<Cond("id", "=", "1")>>, <<>>), Where(<<Cond("id", ">", "1")>>, <<>>)}

TextUpdateStmts ==
    {UpdateStmt("n", <<[col |-> "name", val |-> x]>>, w) : x \in {"a"}, w \in TextWheres}
      \cup {UpdateStmt("n", <<[col |-> "zz", val |-> "a"]>>, NoWhere),
            UpdateStmt("u", <<[col |-> "name", val |-> "a"]>>, NoWhere)}

TextDeleteStmts == {DeleteStmt("n", w) : w \in TextWheres} \cup {DeleteStmt("u", NoWhere)}

NextText ==
    \/ \E s \in TextInsertStmts : HandleInsert(s) /\ WithinBounds(databases')
    \/ \E s \in TextUpdateStmts : HandleUpdate(s)
    \/ \E s \in TextDeleteStmts : HandleDelete(s)

SpecText == InitText /\ [][NextText]_vars

(***************************************************************************)
(* Specification SpecSelect: queries over two tables.  The engine after    *)
(* reset and                                                               *)
(*   CREATE TABLE t (id INT PRIMARY KEY, name VARCHAR)                     *)
(*   CREATE TABLE o (oid INT PRIMARY KEY, tid INT)                         *)
(* Rows come from INSERT statements that name every column.                *)
(***************************************************************************)
TableQ ==
    TableSchema("t", "t",
        <<ColumnSchema("t_col_0", "id", "INT", FALSE, Null, TRUE, FALSE, FALSE, FALSE, NoRef),
          ColumnSchema("t_col_1", "name", "VARCHAR", TRUE, Null, FALSE, FALSE, FALSE, FALSE, NoRef)>>,
        <<>>)

TableO ==
    TableSchema("o", "o",
        <<ColumnSchema("o_col_0", "oid", "INT", FALSE, Null, TRUE, FALSE, FALSE, FALSE, NoRef),
          ColumnSchema("o_col_1", "tid", "INT", TRUE, Null, FALSE, FALSE, FALSE, FALSE, NoRef)>>,
        <<>>)

InitSelect ==
    /\ databases = <<DatabaseState("DemoDB", <<TableQ, TableO>>)>>
    /\ current_db_name = "DemoDB"
    /\ storage = databases
    /\ requests = {}
    /\ stmt = [kind |-> "CREATE TABLE", table |-> "o"]
    /\ result = QueryResult(TRUE, "created", <<>>, NoCount)

SelectInsertStmts ==
    {InsertStmt("t", <<"id", "name">>, <<tp>>) : tp \in {<<"1", "a">>, <<"2", "b">>, <<"x", "b">>}}
      \cup {InsertStmt("o", <<"oid", "tid">>, <<tp>>) :
                tp \in {<<"1", "1">>, <<"2", "1">>, <<"3", "NULL">>}}

SelectWheres ==
    {NoWhere,
     Where(<<Cond("id", ">", "1")>>, <<>>),
     Where(<<Cond("id", "=", "1")>>, <<>>),
     Where(<<Cond("id", ">", "1"), Cond("name", "=", "b")>>, <<"AND">>),
     Where(<<Cond("id", "=", "1"), Cond("name", "=", "b")>>, <<"OR">>)}

SelectStmts ==
    {SelectStmt("t", NoJoin, w, l) : w \in SelectWheres, l \in {NoLimit, 5}}
      \cup {SelectStmt("t", NoJoin, NoWhere, 1), SelectStmt("u", NoJoin, NoWhere, NoLimit)}
      \cup {SelectStmt("t", Join(k, "o", "id", "tid"), NoWhere, NoLimit) : k \in {"INNER", "LEFT"}}
      \cup {SelectStmt("o", Join(k, "t", "tid", "id"), NoWhere, NoLimit) : k \in {"INNER", "LEFT"}}
      \cup {SelectStmt("t", Join("LEFT", "u", "id", "tid"), NoWhere, NoLimit),
            SelectStmt("t", Join("LEFT", "o", "tid", "id"), NoWhere, NoLimit)}

NextSelect ==
    \/ \E s \in SelectInsertStmts : HandleInsert(s) /\ WithinBounds(databases')
    \/ \E s \in SelectStmts : HandleSelect(s)

SpecSelect == InitSelect /\ [][NextSelect]_vars

(***************************************************************************)
(* Specification SpecWhere: SELECT with a WHERE clause of three equalities *)
(* joined by AND and OR, followed by LIMIT 5 so that the WHERE pattern of  *)
(* SELECT sees the clause and hands it to _apply_where_clause.  The engine *)
(* after reset and                                                         *)
(*   CREATE TABLE w (a INT, b INT, c INT)                                  *)
(***************************************************************************)
TableW ==
    TableSchema("w", "w",
        <<ColumnSchema("w_col_0", "a", "INT", TRUE, Null, FALSE, FALSE, FALSE, FALSE, NoRef),
          ColumnSchema("w_col_1", "b", "INT", TRUE, Null, FALSE, FALSE, FALSE, FALSE, NoRef),
          ColumnSchema("w_col_2", "c", "INT", TRUE, Null, FALSE, FALSE, FALSE, FALSE, NoRef)>>,
        <<>>)

InitWhere ==
    /\ databases = <<DatabaseState("DemoDB", <<TableW>>)>>
    /\ current_db_name = "DemoDB"
    /\ storage = databases
    /\ requests = {}
    /\ stmt = [kind |-> "CREATE TABLE", table |-> "w"]
    /\ result = QueryResult(TRUE, "created", <<>>, NoCount)

WhereInsertStmts == {InsertStmt("w", <<"a", "b", "c">>, <<tp>>) : tp \in Tuples(3, {"1", "2"})}

WhereSelectStmts ==
    {SelectStmt("w", NoJoin,
                Where(<<Cond("a", "=", "1"), Cond("b", "=", "1"), Cond("c", "=", "1")>>,
                      <<k1, k2>>),
                5) : k1 \in {"AND", "OR"}, k2 \in {"AND", "OR"}}

NextWhere ==
    \/ \E s \in WhereInsertStmts : HandleInsert(s) /\ WithinBounds(databases')
    \/ \E s \in WhereSelectStmts : HandleSelect(s)

SpecWhere == InitWhere /\ [][NextWhere]_vars

(***************************************************************************)
(* Specification SpecJoin: INNER JOIN between a table with a number column *)
(* and a table with a text column.  The engine after reset and             *)
(*   CREATE TABLE ja (a INT); CREATE TABLE jb (b VARCHAR(10))              *)
(***************************************************************************)
TableJA ==
    TableSchema("ja", "ja",
        <<ColumnSchema("ja_col_0", "a", "INT", TRUE, Null, FALSE, FALSE, FALSE, FALSE, NoRef)>>,
        <<>>)

TableJB ==
    TableSchema("jb", "jb",
        <<ColumnSchema("jb_col_0", "b", "VARCHAR", TRUE, Null, FALSE, FALSE, FALSE, FALSE, NoRef)>>,
        <<>>)

InitJoin ==
    /\ databases = <<DatabaseState("DemoDB", <<TableJA, TableJB>>)>>
    /\ current_db_name = "DemoDB"
    /\ storage = databases
    /\ requests = {}
    /\ stmt = [kind |-> "CREATE TABLE", table |-> "jb"]
    /\ result = QueryResult(TRUE, "created", <<>>, NoCount)

JoinInsertStmts ==
    {InsertStmt("ja", <<"a">>, <<<<v>>>>) : v \in Lits}
      \cup {InsertStmt("jb", <<"b">>, <<<<v>>>>) : v \in Lits}

JoinSelectStmts ==
    {SelectStmt("ja", Join("INNER", "jb", "a", "b"), NoWhere, NoLimit),
     SelectStmt("jb", Join("INNER", "ja", "b", "a"), NoWhere, NoLimit)}

NextJoin ==
    \/ \E s \in JoinInsertStmts : HandleInsert(s) /\ WithinBounds(databases')
    \/ \E s \in JoinSelectStmts : HandleSelect(s)

SpecJoin == InitJoin /\ [][NextJoin]_vars

(***************************************************************************)
(* Specification SpecQuery: ORDER BY, SUM, AVG and GROUP BY over a table   *)
(* with a number column and a text column, both nullable.  The engine      *)
(* after reset and                                                         *)
(*   CREATE TABLE s (n INT, s VARCHAR(10))                                 *)
(***************************************************************************)
TableS ==
    TableSchema("s", "s",
        <<ColumnSchema("s_col_0", "n", "INT", TRUE, Null, FALSE, FALSE, FALSE, FALSE, NoRef),
          ColumnSchema("s_col_1", "s", "VARCHAR", TRUE, Null, FALSE, FALSE, FALSE, FALSE, NoRef)>>,
        <<>>)

InitQuery ==
    /\ databases = <<DatabaseState("DemoDB", <<TableS>>)>>
    /\ current_db_name = "DemoDB"
    /\ storage = databases
    /\ requests = {}
    /\ stmt = [kind |-> "CREATE TABLE", table |-> "s"]
    /\ result = QueryResult(TRUE, "created", <<>>, NoCount)

QueryInsertStmts ==
    {InsertStmt("s", <<"n", "s">>, <<<<n, s>>>>) :
        n \in {"1", "0", "-1", "NULL"}, s \in {"a", "b", "NULL"}}

AggStmts ==
    {AggStmt("s", f, c) : f \in {"SUM", "AVG"}, c \in {"n", "s"}} \cup {AggStmt("u", "SUM", "n")}

OrderStmts ==
    {OrderStmt("s", c, d) : c \in {"n", "s"}, d \in {"ASC", "DESC"}} \cup {OrderStmt("u", "n", "ASC")}

GroupStmts == {GroupStmt("s", "n"), GroupStmt("s", "s"), GroupStmt("u", "n")}

NextQuery ==
    \/ \E s \in QueryInsertStmts : HandleInsert(s) /\ WithinBounds(databases')
    \/ \E s \in OrderStmts : HandleOrderBy(s)
    \/ \E s \in AggStmts : HandleAggregate(s)
    \/ \E s \in GroupStmts : HandleSelectGroupBy(s)

SpecQuery == InitQuery /\ [][NextQuery]_vars

(***************************************************************************)
(* Specification SpecCell: cell-update with number, NULL and boolean texts *)
(* on a number column and a boolean column.  The engine after reset and    *)
(*   CREATE TABLE cb (n INT, b BOOLEAN)                                    *)
(***************************************************************************)
TableCB ==
    TableSchema("cb", "cb",
        <<ColumnSchema("cb_col_0", "n", "INT", TRUE, Null, FALSE, FALSE, FALSE, FALSE, NoRef),
          ColumnSchema("cb_col_1", "b", "BOOLEAN", TRUE, Null, FALSE, FALSE, FALSE, FALSE, NoRef)>>,
        <<>>)

InitCell ==
    /\ databases = <<DatabaseState("DemoDB", <<TableCB>>)>>
    /\ current_db_name = "DemoDB"
    /\ storage = databases
    /\ requests = {}
    /\ stmt = [kind |-> "CREATE TABLE", table |-> "cb"]
    /\ result = QueryResult(TRUE, "created", <<>>, NoCount)

CellTexts == {"1", "NULL", "TRUE"}

CellEdits ==
    {CellRequest("DemoDB", "cb", i, c, v) : i \in 0..MaxRows, c \in {"n", "b"}, v \in CellTexts}

NextCell ==
    \/ \E s \in {InsertStmt("cb", <<"n", "b">>, <<<<"1", "TRUE">>>>)} :
          HandleInsert(s) /\ WithinBounds(databases')
    \/ \E s \in CellEdits : UpdateCell(s)

SpecCell == InitCell /\ [][NextCell]_vars

(***************************************************************************)
(* Specification SpecDb: the registry and the selector.  The engine is     *)
(* constructed over a storage file, or none, and then handles single       *)
(* statements and the reset endpoint of main.py.                           *)
(***************************************************************************)
\* the tables of _initialize_default_database (database.py 52-81)
DeptTable ==
    TableSchema("departments", "departments",
        <<ColumnSchema("dept_id", "dept_id", "INT", FALSE, Null, TRUE, FALSE, FALSE, TRUE, NoRef),
          ColumnSchema("dept_name", "dept_name", "VARCHAR", FALSE, Null, FALSE, FALSE, FALSE,
                       FALSE, NoRef)>>,
        <<[dept_id |-> IntV(101), dept_name |-> StrV("Engineering")],
          [dept_id |-> IntV(102), dept_name |-> StrV("Marketing")],
          [dept_id |-> IntV(103), dept_name |-> StrV("HR")]>>)

EmpTable ==
    TableSchema("employees", "employees",
        <<ColumnSchema("emp_id", "id", "INT", FALSE, Null, TRUE, FALSE, FALSE, TRUE, NoRef),
          ColumnSchema("emp_name", "name", "VARCHAR", FALSE, Null, FALSE, FALSE, FALSE, FALSE, NoRef),
          ColumnSchema("emp_role", "role", "VARCHAR", FALSE, Null, FALSE, FALSE, FALSE, FALSE, NoRef),
          ColumnSchema("emp_dept_id", "department_id", "INT", TRUE, Null, FALSE, FALSE, FALSE,
                       FALSE, NoRef),
          ColumnSchema("emp_salary", "salary", "DECIMAL", FALSE, Null, FALSE, FALSE, FALSE,
                       FALSE, NoRef)>>,
        <<>>)

\* _initialize_default_database: the registry it builds and saves; it does
\* not touch the selector, which __init__ set to None
DefaultRegistry == <<DatabaseState("my_company", <<DeptTable, EmpTable>>)>>

\* the storage file the engine finds: absent, not JSON, or a document
StoredFile(exists, is_json, dbs) ==
    [exists |-> exists, is_json |-> is_json, shape |-> "databases", dbs |-> dbs]

\* a document that parses as JSON but is not laid out as the engine saves it:
\*   "not an object"    the top level is a list, a number, a string or null
\*   "value not object" a top-level value is not an object, as in {"a": 1}
\*   "missing field"    a database lacks a field, as in {"a": {"name": "a"}}
\*   "ill-typed field"  a field has the wrong type, as in {"a": {"name": "a", "tables": 5}}
IllShapedFile(shape) == [exists |-> TRUE, is_json |-> TRUE, shape |-> shape, dbs |-> <<>>]

Shapes == {"not an object", "value not object", "missing field", "ill-typed field"}

\* the exception _load_state_from_disk lets through: data.items() on a value
\* that is not a dict raises AttributeError, DatabaseState(**db_data) on a
\* mapping of the wrong fields raises pydantic's ValidationError (a
\* ValueError); the handler catches json.JSONDecodeError and TypeError only
LoadRaises(file) ==
    /\ file.exists /\ file.is_json
    /\ file.shape \in {"not an object", "missing field", "ill-typed field"}

\* __init__ and _load_state_from_disk
LoadStateFromDisk(file) ==
    IF file.exists /\ file.is_json /\ file.shape = "databases" /\ file.dbs # <<>>
    THEN Engine(file.dbs, file.dbs[1].name, file.dbs)
    ELSE Engine(DefaultRegistry, NoDatabase, DefaultRegistry)

StoredFiles ==
    {StoredFile(FALSE, FALSE, <<>>), StoredFile(TRUE, FALSE, <<>>), StoredFile(TRUE, TRUE, <<>>),
     StoredFile(TRUE, TRUE, ResetRegistry),
     StoredFile(TRUE, TRUE, <<DatabaseState("x", <<>>), DatabaseState("DemoDB", <<>>)>>)}

InitDb ==
    \E file \in StoredFiles :
        /\ databases = LoadStateFromDisk(file).databases
        /\ current_db_name = LoadStateFromDisk(file).current_db_name
        /\ storage = LoadStateFromDisk(file).storage
        /\ requests = {}
        /\ stmt = [kind |-> "__init__", table |-> ""]
        /\ result = QueryResult(TRUE, "constructed", <<>>, NoCount)

\* the reset endpoint (main.py 135-143) and reset_database
ResetRequest(name) == [kind |-> "reset", table |-> "", name |-> name]

ApiReset(s) ==
    /\ stmt' = s
    /\ UNCHANGED requests
    /\ IF DbIndex(databases, s.name) = 0
       THEN /\ result' = QueryResult(FALSE, MsgDatabaseNotFound, <<>>, NoCount)
            /\ UNCHANGED <<databases, current_db_name, storage>>
       ELSE /\ current_db_name' = s.name
            /\ databases' = ResetRegistry
            /\ storage' = ResetRegistry
            /\ result' = QueryResult(TRUE, "reset", <<>>, NoCount)

DbNames == {"DemoDB", "my_company", "x", "zz"}

RegistryStmts ==
    {CreateDatabaseStmt(n, f) : n \in {"DemoDB", "x"}, f \in BOOLEAN}
      \cup {DropDatabaseStmt(n) : n \in DbNames}
      \cup {UseStmt(n) : n \in DbNames}
      \cup {WordStmt(k) : k \in {"SELECT DATABASE()", "START TRANSACTION", "COMMIT", "ROLLBACK"}}

\* statements that fail: unknown table, duplicate key, unknown SET column,
\* unknown joined table, unknown leading keyword
FailingStmts ==
    {InsertStmt("nosuch", <<"id">>, <<<<"1">>>>),
     InsertStmt("departments", <<"dept_id", "dept_name">>, <<<<"101", "Sales">>>>),
     UpdateStmt("departments", <<[col |-> "zz", val |-> "1"]>>, NoWhere),
     SelectStmt("departments", Join("LEFT", "nosuch", "dept_id", "id"), NoWhere, NoLimit),
     SelectStmt("nosuch", NoJoin, NoWhere, NoLimit),
     WordStmt("EXPLAIN")}

NextDb ==
    \/ \E s \in RegistryStmts : ExecuteSql(<<s>>)
    \/ \E s \in FailingStmts : ExecuteSql(<<s>>)
    \/ \E n \in DbNames : ApiReset(ResetRequest(n))

SpecDb == InitDb /\ [][NextDb]_vars

(***************************************************************************)
(* Specification SpecLoad: construction of the engine over every kind of   *)
(* storage file, followed by the calls of SpecDb on the engine when there  *)
(* is one.                                                                 *)
(***************************************************************************)
LoadedFiles == StoredFiles \cup {IllShapedFile(shape) : shape \in Shapes}

\* DatabaseEngine.__init__: self.databases = {}, self.current_db_name = None,
\* then _load_state_from_disk; an exception of the loader leaves the caller
\* without an engine
InitLoad ==
    \E file \in LoadedFiles :
        /\ requests = {}
        /\ stmt = [kind |-> "__init__", table |-> "", file |-> file]
        /\ IF LoadRaises(file)
           THEN /\ databases = <<>>
                /\ current_db_name = NoDatabase
                /\ storage = <<>>
                /\ result = QueryResult(FALSE, "raised", <<>>, NoCount)
           ELSE /\ databases = LoadStateFromDisk(file).databases
                /\ current_db_name = LoadStateFromDisk(file).current_db_name
                /\ storage = LoadStateFromDisk(file).storage
                /\ result = QueryResult(TRUE, "constructed", <<>>, NoCount)

Constructed == ~(stmt.kind = "__init__" /\ ~result.success)

NextLoad == Constructed /\ NextDb

SpecLoad == InitLoad /\ [][NextLoad]_vars

(***************************************************************************)
(* Specification SpecBatch: calls of execute_sql with up to MaxBatch        *)
(* statements separated by semicolons, on the engine constructed over a    *)
(* document of two empty databases.                                        *)
(***************************************************************************)
\* the sequences of 1..n statements of the set
Batches(statements, n) == UNION {[1..k -> statements] : k \in 1..n}

InitBatch ==
    LET e == LoadStateFromDisk(
                 StoredFile(TRUE, TRUE, <<DatabaseState("x", <<>>), DatabaseState("DemoDB", <<>>)>>))
    IN /\ databases = e.databases
       /\ current_db_name = e.current_db_name
       /\ storage = e.storage
       /\ requests = {}
       /\ stmt = [kind |-> "__init__", table |-> ""]
       /\ result = QueryResult(TRUE, "constructed", <<>>, NoCount)

BatchStmts ==
    {UseStmt("DemoDB"), UseStmt("zz"), CreateDatabaseStmt("y", FALSE),
     WordStmt("SELECT DATABASE()")}

NextBatch == \E b \in Batches(BatchStmts, MaxBatch) : ExecuteSql(b)

SpecBatch == InitBatch /\ [][NextBatch]_vars

(***************************************************************************)
(* Specification SpecTx: the transaction statements around INSERT and       *)
(* DELETE on table t of Spec, in calls of up to MaxBatch statements.        *)
(***************************************************************************)
InsertOne == InsertStmt("t", <<"r">>, <<<<"1">>>>)
DeleteAll == DeleteStmt("t", NoWhere)

TxStmts == {WordStmt("START TRANSACTION"), WordStmt("ROLLBACK"), InsertOne, DeleteAll}

NextTx ==
    \/ \E b \in Batches(TxStmts, MaxBatch) : ExecuteSql(b) /\ WithinBounds(databases')
    \/ ExecuteSql(<<WordStmt("COMMIT")>>)

SpecTx == Init /\ [][NextTx]_vars

(***************************************************************************)
(* Specification SpecSchema: tables t and u made, altered, replaced and    *)
(* dropped in the database of a reset, by statements and by the endpoints. *)
(***************************************************************************)
InitSchema ==
    /\ databases = ResetRegistry
    /\ current_db_name = "DemoDB"
    /\ storage = databases
    /\ requests = {}
    /\ stmt = [kind |-> "reset", table |-> ""]
    /\ result = QueryResult(TRUE, "reset", <<>>, NoCount)

IntCol(name) == ColDef(name, "INT", FALSE, FALSE, FALSE, FALSE)

SchemaColumnLists ==
    {<<IntCol("a")>>, <<IntCol("a"), IntCol("a")>>, <<IntCol("a"), IntCol("b")>>}

SchemaCreateStmts ==
    {CreateTableStmt(n, cols) : n \in {"t", "u"}, cols \in SchemaColumnLists}
      \cup {CreateTableStmt("t", <<ColDef("a", "TEXT", FALSE, FALSE, FALSE, FALSE)>>)}

SchemaTables ==
    {TableSchema(n, n, ParsedColumns(n, cols), <<>>) : n \in {"t", "u"}, cols \in SchemaColumnLists}

SchemaCreateRequests == {CreateTableRequest("DemoDB", new) : new \in SchemaTables}

SchemaUpdateRequests ==
    {UpdateTableRequest("DemoDB", old, new) : old \in {"t", "u"}, new \in SchemaTables}

SchemaAlterStmts ==
    {AlterStmt(n, c, "INT", FALSE, FALSE, NoDefault) : n \in {"t", "u"}, c \in {"a", "b"}}

NextSchema ==
    \/ \E s \in SchemaCreateStmts : HandleCreateTable(s)
    \/ \E s \in SchemaCreateRequests : CreateTable(s)
    \/ \E s \in SchemaUpdateRequests : UpdateTable(s)
    \/ \E s \in SchemaAlterStmts : HandleAlterTable(s)
    \/ \E s \in DropTableStmts : HandleDropTable(s)

SpecSchema == InitSchema /\ [][NextSchema]_vars

(***************************************************************************)
(* Specification SpecTypes: CREATE TABLE with every base type, with TEXT,  *)
(* and with a column name that starts like a type; DROP TABLE makes room   *)
(* for the next CREATE TABLE.                                              *)
(***************************************************************************)
TypedCol(name, type) == ColDef(name, type, FALSE, FALSE, FALSE, FALSE)

TypeColumnLists ==
    {<<TypedCol("a", ty)>> : ty \in Range(DataTypes) \cup {"TEXT"}}
      \cup {<<TypedCol("a", "INT"), TypedCol("b", ty)>> : ty \in {"VARCHAR", "TIMESTAMP", "DATETIME"}}
      \cup {<<TypedCol("interest", "BOOLEAN")>>}

TypeCreateStmts == {CreateTableStmt(n, cols) : n \in {"t", "u"}, cols \in TypeColumnLists}

NextTypes ==
    \/ \E s \in TypeCreateStmts : HandleCreateTable(s)
    \/ \E s \in {DropTableStmt("t"), DropTableStmt("u")} : HandleDropTable(s)

SpecTypes == InitSchema /\ [][NextTypes]_vars

(***************************************************************************)
(* Specification SpecRequests: clients issue requests to                   *)
(* /databases/{name}/query while other requests are in flight.  main.py    *)
(* declares execute_query with async def, so the server runs it on its one *)
(* event loop, and the body (main.py 122-132) and execute_sql hold no      *)
(* await: once the loop has started the handler of a request it runs no    *)
(* other handler until this one has returned.  The steps of the handler    *)
(* are separate actions, so that what another request could do between     *)
(* them is a question of the model and not of its grain.                   *)
(***************************************************************************)
RequestIds == {1, 2}

NoResponse == QueryResult(FALSE, "", <<>>, NoCount)

\* a request as the server holds it: pc is the position of its handler, db
\* the database its statement ran against, save whether the statement
\* called _save_state_to_disk, response what the handler returns
Request(id, name, query) ==
    [id |-> id, name |-> name, query |-> query, pc |-> "received",
     db |-> "", save |-> FALSE, response |-> NoResponse]

\* a def endpoint runs in a worker thread of the server's pool: a thread is
\* there for every request that waits
ThreadIsFree(reqs) == \E r \in reqs : r.pc = "received"

\* the event loop starts a handler when no handler is on it
LoopIsFree(reqs) == \A r \in reqs : r.pc = "received"

\* a client sends a request
Issue(id, name, query) ==
    /\ \A r \in requests : r.id # id
    /\ requests' = requests \cup {Request(id, name, query)}
    /\ UNCHANGED <<databases, current_db_name, storage, stmt, result>>

RequestStmt(r) == [kind |-> "execute_query", table |-> "", name |-> r.name, id |-> r.id]

\* main.py 125-126: the database is not in the registry
NotFound(r) ==
    /\ r.pc = "received"
    /\ LoopIsFree(requests)
    /\ DbIndex(databases, r.name) = 0
    /\ requests' = requests \ {r}
    /\ stmt' = RequestStmt(r)
    /\ result' = QueryResult(FALSE, MsgDatabaseNotFound, <<>>, NoCount)
    /\ UNCHANGED <<databases, current_db_name, storage>>

\* main.py 128: db_engine.current_db_name = name
AssignSelector(r) ==
    /\ r.pc = "received"
    /\ LoopIsFree(requests)
    /\ DbIndex(databases, r.name) # 0
    /\ current_db_name' = r.name
    /\ requests' = (requests \ {r}) \cup {[r EXCEPT !.pc = "selected"]}
    /\ UNCHANGED <<databases, storage, stmt, result>>

\* main.py 129: execute_sql up to the handler's call of _save_state_to_disk
ExecuteStatement(r) ==
    LET answer(out) ==
            /\ databases' = out.databases
            /\ current_db_name' = out.current_db_name
            /\ requests' = (requests \ {r}) \cup
                              {[r EXCEPT !.pc = "executed", !.db = current_db_name,
                                         !.save = (out.storage # storage),
                                         !.response = BatchResult(out.results)]}
    IN /\ r.pc = "selected"
       /\ answer(RunStatements(Engine(databases, current_db_name, storage), r.query, <<>>))
       /\ WithinBounds(databases')
       /\ UNCHANGED <<storage, stmt, result>>

\* _save_state_to_disk, when the handler calls it
Persist(r) ==
    /\ r.pc = "executed"
    /\ storage' = IF r.save THEN databases ELSE storage
    /\ requests' = (requests \ {r}) \cup {[r EXCEPT !.pc = "persisted"]}
    /\ UNCHANGED <<databases, current_db_name, stmt, result>>

\* main.py 132: return result
Respond(r) ==
    /\ r.pc = "persisted"
    /\ requests' = requests \ {r}
    /\ stmt' = RequestStmt(r)
    /\ result' = r.response
    /\ UNCHANGED <<databases, current_db_name, storage>>

\* after reset, CREATE DATABASE shop, and in both databases
\*   CREATE TABLE t (k INT PRIMARY KEY AUTO_INCREMENT, r INT)
InitRequests ==
    /\ databases = <<DatabaseState("DemoDB", <<TableT>>), DatabaseState("shop", <<TableT>>)>>
    /\ current_db_name = "shop"
    /\ storage = databases
    /\ requests = {}
    /\ stmt = [kind |-> "CREATE TABLE", table |-> "t"]
    /\ result = QueryResult(TRUE, "created", <<>>, NoCount)

RequestNames == {"DemoDB", "shop", "zz"}

RequestQueries ==
    {<<InsertStmt("t", <<"r">>, <<<<"1">>>>)>>,
     <<DeleteStmt("t", NoWhere)>>,
     <<SelectStmt("t", NoJoin, NoWhere, NoLimit)>>}

NextRequests ==
    \/ \E id \in RequestIds, name \in RequestNames, query \in RequestQueries : Issue(id, name, query)
    \/ \E r \in requests : NotFound(r)
    \/ \E r \in requests : AssignSelector(r)
    \/ \E r \in requests : ExecuteStatement(r)
    \/ \E r \in requests : Persist(r)
    \/ \E r \in requests : Respond(r)

SpecRequests == InitRequests /\ [][NextRequests]_vars

(***************************************************************************)
(* Specification SpecFrame: every kind of SELECT on a table whose first    *)
(* row lacks a declared column.  The engine after reset; create-table      *)
(* brings table f (n INT, s VARCHAR) with the row {n: 2}.                  *)
(***************************************************************************)
TableF ==
    TableSchema("f", "f",
        <<ColumnSchema("f_col_0", "n", "INT", TRUE, Null, FALSE, FALSE, FALSE, FALSE, NoRef),
          ColumnSchema("f_col_1", "s", "VARCHAR", TRUE, Null, FALSE, FALSE, FALSE, FALSE, NoRef)>>,
        <<[c \in {"n"} |-> IntV(2)]>>)

FrameInsertStmts ==
    {InsertStmt("f", <<"n", "s">>, <<<<n, s>>>>) : n \in {"1", "2"}, s \in {"a", "NULL"}}

FrameSelectStmts ==
    {SelectStmt("f", j, w, l) :
        j \in {NoJoin, Join("INNER", "f", "n", "n"), Join("LEFT", "f", "n", "n")},
        w \in {NoWhere, Where(<<Cond("n", "=", "1")>>, <<>>)},
        l \in {NoLimit, 1}}

NextFrame ==
    \/ \E s \in {CreateTableRequest("DemoDB", TableF)} : CreateTable(s)
    \/ \E s \in FrameInsertStmts : HandleInsert(s) /\ WithinBounds(databases')
    \/ \E s \in FrameSelectStmts : HandleSelect(s)
    \/ \E s \in {OrderStmt("f", c, d) : c \in {"n", "s"}, d \in {"ASC", "DESC"}} : HandleOrderBy(s)
    \/ \E s \in {AggStmt("f", "SUM", "n"), AggStmt("f", "AVG", "n")} : HandleAggregate(s)
    \/ \E s \in {GroupStmt("f", "n"), GroupStmt("f", "s")} : HandleSelectGroupBy(s)
    \/ \E s \in {CountStmt("f")} : HandleCount(s)

SpecFrame == InitSchema /\ [][NextFrame]_vars

(***************************************************************************)
(* Specification SpecCount: SELECT COUNT-star on table t of Spec as INSERT *)
(* and DELETE fill and empty it.                                           *)
(***************************************************************************)
NextCount ==
    \/ Insert
    \/ Delete
    \/ \E s \in {CountStmt("t"), CountStmt("u")} : HandleCount(s)

SpecCount == Init /\ [][NextCount]_vars

(***************************************************************************)
(* Claims.                                                                 *)
(***************************************************************************)
\* the table named name in the current database of a registry (it exists)
TableOf(dbs, db_name, name) ==
    LET tables == dbs[DbIndex(dbs, db_name)].tables IN tables[TableIndex(tables, name)]

HasTable(dbs, db_name, name) ==
    DbIndex(dbs, db_name) # 0 /\ TableIndex(dbs[DbIndex(dbs, db_name)].tables, name) # 0

\* the step stored rows in the table the statement names: the rows it appended
Appended(name) ==
    LET old == TableOf(databases, current_db_name, name).rows
        new == TableOf(databases', current_db_name, name).rows
    IN SubSeq(new, Len(old) + 1, Len(new))

\* C1: in every reachable state, for every table and every column of it
\* flagged primary-key or unique, no two rows hold the same non-null value in
\* that column.
C1_UniqueKeys ==
    \A d \in DOMAIN databases : \A t \in DOMAIN databases[d].tables :
        LET table == databases[d].tables[t]
        IN \A c \in DOMAIN table.columns :
              table.columns[c].isPrimaryKey \/ table.columns[c].isUnique =>
                 \A i, j \in DOMAIN table.rows :
                     i < j /\ ~IsNull(Get(table.rows[i], table.columns[c].name))
                       => Get(table.rows[i], table.columns[c].name)
                            # Get(table.rows[j], table.columns[c].name)

\* C2: an INSERT statement that the constraint checker rejects on one of its
\* value rows leaves the registry, so the target table, with exactly the rows
\* it had before the statement.
C2_RejectedInsertStoresNothing ==
    [][(stmt'.kind = "INSERT" /\ ~result'.success
          /\ result'.message \in {MsgNotNull, MsgDuplicate, MsgForeignKey})
        => databases' = databases]_vars

\* C3: every row stored by a successful INSERT holds a non-null value in
\* every column of the table declared non-nullable.
C3_StoredRowsNotNull ==
    [][(stmt'.kind = "INSERT" /\ result'.success)
        => LET table == TableOf(databases', current_db_name, stmt'.table)
               rows == Appended(stmt'.table)
           IN \A j \in DOMAIN rows : \A c \in DOMAIN table.columns :
                 ~table.columns[c].nullable => ~IsNull(Get(rows[j], table.columns[c].name))]_vars

\* C4: every row stored by a successful INSERT with a non-null value v in a
\* foreign-key column referencing (T2, C2) finds, at the insertion, the table
\* T2 in the current database and a row of T2 that holds v in C2.
C4_ForeignKeyHasTarget ==
    [][(stmt'.kind = "INSERT" /\ result'.success)
        => LET table == TableOf(databases', current_db_name, stmt'.table)
               rows == Appended(stmt'.table)
           IN \A j \in DOMAIN rows : \A c \in DOMAIN table.columns :
                 LET col == table.columns[c]
                     v == Get(rows[j], col.name)
                 IN (col.isForeignKey /\ col.references # NoRef /\ ~IsNull(v)) =>
                       /\ HasTable(databases', current_db_name, col.references.tableId)
                       /\ \E row \in Range(TableOf(databases', current_db_name,
                                                   col.references.tableId).rows) :
                              PyEq(Get(row, col.references.columnId), v)]_vars

\* the value a row holds in column c equals the literal v: it reads as v
ValueEquals(row, c, v) == StrGet(row, c) = v

\* C8: DELETE without WHERE leaves the table without rows; DELETE ... WHERE
\* c = v removes exactly the rows whose value in c equals v and keeps the
\* others in their order; the affected-row count is rows before minus rows after.
C8_DeleteRemovesMatching ==
    [][\A s \in TextDeleteStmts :
          (HandleDelete(s) /\ result'.success /\ (s.where = NoWhere \/ s.where.conds[1].op = "="))
          => LET old == TableOf(databases, current_db_name, s.table).rows
                 new == TableOf(databases', current_db_name, s.table).rows
             IN /\ s.where = NoWhere => new = <<>>
                /\ s.where # NoWhere =>
                      new = SelectIdx(old, {i \in DOMAIN old :
                               ~ValueEquals(old[i], s.where.conds[1].col, s.where.conds[1].val)})
                /\ result'.affectedRows = Len(old) - Len(new)]_vars

\* C9: UPDATE without WHERE assigns the SET values in every row, with WHERE
\* c = v in exactly the rows whose value in c equals v; other rows and other
\* columns stay, the affected-row count is the number of rows assigned, and an
\* UPDATE of an unknown table or column fails and changes nothing.
C9_UpdateAssignsMatching ==
    [][\A s \in TextUpdateStmts :
          (HandleUpdate(s) /\ (s.where = NoWhere \/ s.where.conds[1].op = "="))
          => IF ~HasTable(databases, current_db_name, s.table)
                \/ \E i \in DOMAIN s.set :
                      ColumnIndex(TableOf(databases, current_db_name, s.table).columns,
                                  s.set[i].col) = 0
             THEN ~result'.success /\ databases' = databases
             ELSE LET table == TableOf(databases, current_db_name, s.table)
                      old == table.rows
                      new == TableOf(databases', current_db_name, s.table).rows
                      hit == IF s.where = NoWhere THEN DOMAIN old
                             ELSE {i \in DOMAIN old :
                                     ValueEquals(old[i], s.where.conds[1].col, s.where.conds[1].val)}
                  IN /\ result'.success
                     /\ result'.affectedRows = Cardinality(hit)
                     /\ DOMAIN new = DOMAIN old
                     /\ \A i \in DOMAIN old :
                           new[i] = IF i \in hit THEN Merge(old[i], Updates(table.columns, s.set))
                                    ELSE old[i]]_vars

\* the last request was a successful SELECT * FROM a table, without JOIN and
\* LIMIT, whose WHERE clause has n conditions
PlainSelect(n) ==
    /\ stmt.kind = "SELECT" /\ result.success
    /\ stmt.join = NoJoin /\ stmt.limit = NoLimit
    /\ Len(stmt.where.conds) = n

\* the scanned rows of the table of the last request
ScannedRows == Scan(TableOf(databases, current_db_name, stmt.table))

\* the row holds a number greater than the number v in column c
NumericGreater(row, c, v) ==
    IsNumber(Get(row, c)) /\ IsNumericText(v) /\ Get(row, c).n > TextToInt(v)

\* the row satisfies a condition col = v or col > v
Satisfies(row, cond) ==
    IF cond.op = "=" THEN ~IsNull(Get(row, cond.col)) /\ ValueEquals(row, cond.col, cond.val)
    ELSE NumericGreater(row, cond.col, cond.val)

\* C5: a SELECT whose only clause after FROM is WHERE col > v returns exactly
\* the scanned rows whose value in col is a number greater than v.
C5_GreaterThanFilters ==
    (PlainSelect(1) /\ stmt.where.conds[1].op = ">")
      => result.data =
            SelectIdx(ScannedRows,
                      {i \in DOMAIN ScannedRows :
                          NumericGreater(ScannedRows[i], stmt.where.conds[1].col,
                                         stmt.where.conds[1].val)})

\* C6: a SELECT * with WHERE <primary key> = <key>, asked when a row inserted
\* with explicit values for all columns holds that key, returns exactly that
\* one row, whatever other rows the table contains.
C6_InsertSelectRoundTrip ==
    (PlainSelect(1) /\ stmt.where.conds[1].op = "=")
      => LET table == TableOf(databases, current_db_name, stmt.table)
             cond == stmt.where.conds[1]
         IN \A i \in DOMAIN table.rows :
               (table.columns[ColumnIndex(table.columns, cond.col)].isPrimaryKey
                  /\ ValueEquals(table.rows[i], cond.col, cond.val))
               => result.data = <<table.rows[i]>>

\* C7: a SELECT * FROM t with the WHERE clause c1 AND c2 returns exactly the
\* rows that satisfy both conditions, with c1 OR c2 exactly the rows that
\* satisfy at least one, every stored row at most once, so no row when none
\* qualifies.
C7_TwoConditionsFilter ==
    PlainSelect(2)
      => LET c1 == stmt.where.conds[1]
             c2 == stmt.where.conds[2]
             Test(row) == IF stmt.where.links[1] = "AND"
                          THEN Satisfies(row, c1) /\ Satisfies(row, c2)
                          ELSE Satisfies(row, c1) \/ Satisfies(row, c2)
         IN result.data = SelectIdx(ScannedRows, {i \in DOMAIN ScannedRows : Test(ScannedRows[i])})

\* the last request was a successful SELECT * with a join of the given kind
\* and neither WHERE nor LIMIT
JoinSelect(kind) ==
    /\ stmt.kind = "SELECT" /\ result.success
    /\ stmt.join.kind = kind /\ stmt.where = NoWhere /\ stmt.limit = NoLimit

\* the positions of the result rows that carry the left-table row (the tables
\* of SpecSelect share no column name and their keys tell their rows apart)
ResultRowsFor(left_row) ==
    {k \in DOMAIN result.data :
        \A c \in DOMAIN left_row : c \in DOMAIN result.data[k] /\ result.data[k][c] = left_row[c]}

\* the left-table row has a match in the joined table: the stringified join values agree
HasMatch(left_row) ==
    \E row2 \in Range(TableOf(databases, current_db_name, stmt.join.table).rows) :
        PyStr(Get(left_row, stmt.join.left_col)) = PyStr(Get(row2, stmt.join.right_col))

\* C10: for a left-table row without match in the joined table the LEFT JOIN
\* result holds exactly one row, with every column of the right table null,
\* and the INNER JOIN result holds none; a LEFT JOIN result holds at least
\* one row for every left-table row.
C10_LeftJoinKeepsUnmatched ==
    \A kind \in {"LEFT", "INNER"} :
       JoinSelect(kind)
         => LET left == TableOf(databases, current_db_name, stmt.table)
                right == TableOf(databases, current_db_name, stmt.join.table)
            IN \A l \in DOMAIN left.rows :
                  LET mine == ResultRowsFor(left.rows[l])
                  IN /\ kind = "LEFT" => mine # {}
                     /\ (kind = "LEFT" /\ ~HasMatch(left.rows[l])) =>
                           /\ Cardinality(mine) = 1
                           /\ \A k \in mine : \A c \in DOMAIN right.columns :
                                 /\ right.columns[c].name \in DOMAIN result.data[k]
                                 /\ IsNull(result.data[k][right.columns[c].name])
                     /\ (kind = "INNER" /\ ~HasMatch(left.rows[l])) => mine = {}

\* a LEFT JOIN answered over a left table with a matched and an unmatched row
C10_Witness ==
    /\ JoinSelect("LEFT")
    /\ LET left == TableOf(databases, current_db_name, stmt.table)
       IN /\ \E l \in DOMAIN left.rows : HasMatch(left.rows[l])
          /\ \E l \in DOMAIN left.rows : ~HasMatch(left.rows[l])
    /\ TableOf(databases, current_db_name, stmt.join.table).rows # <<>>

\* C11: ALTER TABLE t ADD COLUMN c <type> DEFAULT d on an existing table
\* succeeds, appends column c to the schema and stores d in column c of every
\* row the table had, so that the scan of a following SELECT * shows c = d;
\* with a column name that exists it fails and changes nothing.
C11_AlterStoresDefault ==
    [][\A s \in AlterStmts :
          (HandleAlterTable(s) /\ s.default # NoDefault
             /\ HasTable(databases, current_db_name, s.table))
          => LET old == TableOf(databases, current_db_name, s.table)
                 new == TableOf(databases', current_db_name, s.table)
             IN IF ColumnIndex(old.columns, s.column) # 0
                THEN ~result'.success /\ databases' = databases
                ELSE /\ result'.success
                     /\ Len(new.columns) = Len(old.columns) + 1
                     /\ new.columns[Len(new.columns)].name = s.column
                     /\ DOMAIN new.rows = DOMAIN old.rows
                     /\ \A i \in DOMAIN old.rows :
                           /\ new.rows[i] = Put(old.rows[i], s.column, ParseDefault(s.default))
                           /\ Get(Scan(new)[i], s.column) = ParseDefault(s.default)]_vars

\* C12: whenever a mutating operation (here INSERT, DROP TABLE, create-table,
\* update-table, cell-update) completes successfully, the persisted document
\* equals the serialization of the whole registry at that moment.
C12_SuccessIsPersisted ==
    [][(result'.success
          /\ stmt'.kind \in {"INSERT", "DROP TABLE", "create-table", "update-table", "CELL"})
        => storage' = databases']_vars

\* the single statement of the request the engine has just answered
IsStatement(s, kind) == s.kind = "BATCH" /\ Len(s.batch) = 1 /\ s.batch[1].kind = kind

HasDatabase(dbs, name) == DbIndex(dbs, name) # 0

\* the statement is in error in the engine's state: an unknown leading
\* keyword (syntax), an unknown table, joined table, SET column or database
\* (reference), a duplicate primary key (integrity), or the name of a database
\* that exists (collision)
InError(s) ==
    LET known == HasDatabase(databases, current_db_name)
        tables == CurrentTables
        ti == TableIndex(tables, s.table)
    IN CASE s.kind = "EXPLAIN" -> TRUE
         [] s.kind = "CREATE DATABASE" -> HasDatabase(databases, s.name) /\ ~s.if_not_exists
         [] s.kind \in {"DROP DATABASE", "USE"} -> ~HasDatabase(databases, s.name)
         [] s.kind = "SELECT" ->
              \/ ~known \/ ti = 0
              \/ s.join # NoJoin /\ TableIndex(tables, s.join.table) = 0
         [] s.kind = "UPDATE" ->
              \/ ~known \/ ti = 0
              \/ \E i \in DOMAIN s.set : ColumnIndex(tables[ti].columns, s.set[i].col) = 0
         [] s.kind = "INSERT" ->
              \/ ~known \/ ti = 0
              \/ \E i \in DOMAIN tables[ti].rows, t \in DOMAIN s.tuples, c \in DOMAIN s.cols :
                    /\ ColumnIndex(tables[ti].columns, s.cols[c]) # 0
                    /\ tables[ti].columns[ColumnIndex(tables[ti].columns, s.cols[c])].isPrimaryKey
                    /\ StrGet(tables[ti].rows[i], s.cols[c]) = s.tuples[t][c]
         [] OTHER -> FALSE

\* C14: execute_sql returns a result record and lets no exception escape:
\* a statement with a syntax, reference, integrity or name-collision error
\* is answered with a record whose success is false and whose message is set.
\* (The elapsed time is the executionTime every QueryResult of database.py is
\* built with; the model keeps no clock.)
C14_ErrorsAreResults ==
    [][stmt'.kind = "BATCH" =>
          /\ DOMAIN result' = DOMAIN QueryResult(FALSE, "", <<>>, NoCount)
          /\ result'.success \in BOOLEAN
          /\ (Len(stmt'.batch) = 1 /\ InError(stmt'.batch[1]))
                => ~result'.success /\ result'.message # ""]_vars

\* a failed answer to each class of error has been given: this one to a
\* CREATE DATABASE of a name in the registry
C14_Witness ==
    /\ IsStatement(stmt, "CREATE DATABASE")
    /\ ~stmt.batch[1].if_not_exists
    /\ ~result.success /\ result.message = MsgDatabaseExists
    /\ HasDatabase(databases, stmt.batch[1].name)

\* C17: in every reachable state the selector names one database of the
\* registry.
C17_SelectorNamesDatabase == HasDatabase(databases, current_db_name)

\* C18: DROP DATABASE x of a database in the registry removes x and leaves
\* the others as they were; if x was selected and others remain the selector
\* names one of them; if x was the only database the registry is one empty
\* database and the selector names it; of an unknown name it fails and
\* changes nothing.
C18_DropDatabase ==
    [][IsStatement(stmt', "DROP DATABASE") =>
          LET x == stmt'.batch[1].name
          IN IF ~HasDatabase(databases, x)
             THEN ~result'.success /\ UNCHANGED <<databases, current_db_name, storage>>
             ELSE /\ result'.success
                  /\ IF Len(databases) = 1
                     THEN /\ Len(databases') = 1
                          /\ databases'[1].tables = <<>>
                          /\ current_db_name' = databases'[1].name
                     ELSE /\ databases' = WithoutDatabase(databases, x)
                          /\ current_db_name = x => HasDatabase(databases', current_db_name')]_vars

\* C19: CREATE DATABASE x of a new name adds the empty database x and
\* selects it; with IF NOT EXISTS and x in the registry it succeeds, leaves
\* the registry and selects x; without IF NOT EXISTS and x in the registry it
\* fails and leaves the registry and the selector.
C19_CreateDatabase ==
    [][IsStatement(stmt', "CREATE DATABASE") =>
          LET s == stmt'.batch[1]
          IN IF ~HasDatabase(databases, s.name)
             THEN /\ result'.success
                  /\ databases' = Append(databases, DatabaseState(s.name, <<>>))
                  /\ current_db_name' = s.name
             ELSE IF s.if_not_exists
             THEN /\ result'.success
                  /\ databases' = databases
                  /\ current_db_name' = s.name
             ELSE /\ ~result'.success
                  /\ UNCHANGED <<databases, current_db_name>>]_vars

\* CREATE DATABASE IF NOT EXISTS of a database in the registry has moved the
\* selector to it, the registry holding another database too
C19_Witness ==
    /\ IsStatement(stmt, "CREATE DATABASE")
    /\ stmt.batch[1].if_not_exists
    /\ result.success /\ result.message = "database exists"
    /\ current_db_name = stmt.batch[1].name
    /\ Len(databases) > 1

\* the engine of the current state
Current == Engine(databases, current_db_name, storage)

\* the engine after the statements before statement k of batch b, with their
\* results
Before(b, k) == RunStatements(Current, SubSeq(b, 1, k - 1), <<>>)

\* statement k of batch b in the engine p the statements before it leave
StatementOutcome(p, b, k) == StepSql(Engine(p.databases, p.current_db_name, p.storage), b[k])

\* statement k is the first of batch b to fail: p is the engine before it
\* and out its outcome
FirstToFail(p, out, k) ==
    /\ Len(p.results) = k - 1
    /\ \A i \in 1..(k - 1) : p.results[i].success
    /\ ~out.result.success

\* C13: in a batch whose first failing statement is statement k, the
\* effects of statements 1..k-1 are applied and persisted and stay, no
\* statement after k is executed, and the result returned is the failure of
\* statement k.
C13_BatchStopsAtFirstFailure ==
    [][stmt'.kind = "BATCH" =>
          LET b == stmt'.batch
          IN \A k \in DOMAIN b :
                LET p == Before(b, k)
                    out == StatementOutcome(p, b, k)
                IN FirstToFail(p, out, k) =>
                      /\ result' = out.result
                      /\ ~result'.success
                      /\ databases' = out.databases
                      /\ current_db_name' = out.current_db_name
                      /\ storage' = p.storage
                      /\ \A i \in 1..(k - 1) :
                            b[i].kind = "CREATE DATABASE" =>
                               /\ HasDatabase(databases', b[i].name)
                               /\ HasDatabase(storage', b[i].name)
                      /\ \A i \in (k + 1)..Len(b) :
                            (b[i].kind = "CREATE DATABASE" /\ ~HasDatabase(p.databases, b[i].name))
                            => ~HasDatabase(databases', b[i].name)]_vars

\* a batch of three whose second statement failed after the first had
\* created database y: y is in the registry and in the document, and selected
C13_Witness ==
    /\ stmt.kind = "BATCH"
    /\ stmt.batch = <<CreateDatabaseStmt("y", FALSE), UseStmt("zz"), UseStmt("DemoDB")>>
    /\ ~result.success /\ result.message = MsgDatabaseMissing
    /\ HasDatabase(databases, "y") /\ HasDatabase(storage, "y")
    /\ current_db_name = "y"

\* C20: USE x of a database in the registry selects x, so that the
\* statements after it in the batch run as they would on an engine whose
\* selector is x, and SELECT DATABASE() answers x; USE of an unknown name
\* fails and leaves the selector and the registry.
C20_UseSelects ==
    [][stmt'.kind = "BATCH" =>
          LET b == stmt'.batch
              x == b[1].name
              rest == RunStatements(Engine(databases, x, storage), Tail(b), <<>>)
          IN /\ (b[1].kind = "USE" /\ HasDatabase(databases, x)) =>
                   /\ databases' = rest.databases
                   /\ current_db_name' = rest.current_db_name
                   /\ storage' = rest.storage
                   /\ Len(b) = 1 => result'.success /\ current_db_name' = x
                   /\ (Len(b) > 1 /\ b[2].kind = "SELECT DATABASE()") =>
                         /\ rest.results[1].success
                         /\ rest.results[1].data = <<DatabaseRow(x)>>
                         /\ Before(b, 3).results[2] = rest.results[1]
             /\ (b[1].kind = "USE" /\ ~HasDatabase(databases, x)) =>
                   /\ ~result'.success
                   /\ UNCHANGED <<databases, current_db_name>>
             /\ (Len(b) = 1 /\ b[1].kind = "SELECT DATABASE()") =>
                   result'.data = <<DatabaseRow(current_db_name)>>]_vars

\* a batch that created and so selected y, then selected DemoDB, then asked
\* SELECT DATABASE(): the selector is DemoDB
C20_Witness ==
    /\ stmt.kind = "BATCH"
    /\ stmt.batch = <<CreateDatabaseStmt("y", FALSE), UseStmt("DemoDB"),
                      WordStmt("SELECT DATABASE()")>>
    /\ result.success
    /\ current_db_name = "DemoDB"

NotTransaction(s) == s.kind \notin {"START TRANSACTION", "COMMIT", "ROLLBACK"}

C16_RollbackRestoresRows ==
    [][(/\ stmt'.kind = "BATCH"
        /\ stmt'.batch = <<WordStmt("START TRANSACTION"), DeleteAll, WordStmt("ROLLBACK")>>
        /\ TableOf(databases, current_db_name, "t").rows # <<>>)
       => TableOf(databases', current_db_name, "t").rows
             = TableOf(databases, current_db_name, "t").rows]_vars

\* no database of the registry holds two tables of one name
TableNamesUnique(dbs) ==
    \A d \in DOMAIN dbs : \A i, j \in DOMAIN dbs[d].tables :
        dbs[d].tables[i].name = dbs[d].tables[j].name => i = j

\* C21: no database holds two tables of one name; CREATE TABLE and
\* create-table of a name the database has fail and leave the registry and
\* the document, and so does update-table that renames a table to the name of
\* another table of the database.  (The endpoints point the selector at the
\* database of their path before they call the engine.)
C21_TableNamesUnique ==
    /\ TableNamesUnique(databases)
    /\ [][/\ TableNamesUnique(databases')
          /\ \A s \in SchemaCreateStmts :
                (HandleCreateTable(s) /\ HasTable(databases, current_db_name, s.table))
                => ~result'.success /\ UNCHANGED <<databases, storage>>
          /\ \A s \in SchemaCreateRequests :
                (CreateTable(s) /\ HasTable(databases, s.name, s.schema.name))
                => ~result'.success /\ UNCHANGED <<databases, storage>>
          /\ \A s \in SchemaUpdateRequests :
                (/\ UpdateTable(s)
                 /\ HasTable(databases, s.name, s.table)
                 /\ s.schema.name # s.table
                 /\ HasTable(databases, s.name, s.schema.name))
                => ~result'.success /\ UNCHANGED <<databases, storage>>]_vars

\* update-table has refused to give a table the name of the other table
C21_Witness ==
    /\ stmt.kind = "update-table"
    /\ ~result.success /\ result.message = MsgTableExists
    /\ HasTable(databases, current_db_name, "t") /\ HasTable(databases, current_db_name, "u")

\* C22: no table holds two columns of one name, whatever column lists are
\* given to CREATE TABLE, ALTER TABLE ADD COLUMN, create-table and update-table.
C22_ColumnNamesUnique ==
    \A d \in DOMAIN databases : \A t \in DOMAIN databases[d].tables :
        \A i, j \in DOMAIN databases[d].tables[t].columns :
            databases[d].tables[t].columns[i].name = databases[d].tables[t].columns[j].name
            => i = j

\* C23: SELECT COUNT-star FROM t answers exactly one row, whose only key is
\* COUNT-star and whose value is the number of rows of t: 0 on an empty table,
\* never zero rows.
C23_CountIsOneRow ==
    (stmt.kind = "SELECT COUNT(*)" /\ HasTable(databases, current_db_name, stmt.table))
    => /\ result.success
       /\ Len(result.data) = 1
       /\ DOMAIN result.data[1] = {"COUNT(*)"}
       /\ result.data[1]["COUNT(*)"]
             = IntV(Len(TableOf(databases, current_db_name, stmt.table).rows))

\* COUNT-star has been answered on the empty table
C23_Witness ==
    /\ stmt = CountStmt("t")
    /\ TableOf(databases, current_db_name, "t").rows = <<>>
    /\ result.success /\ result.data # <<>>

\* a storage file that is absent, is not JSON, or is JSON of the wrong layout
BadFile(file) == ~file.exists \/ ~file.is_json \/ file.shape # "databases"

\* C24: construction of the engine never fails because of the persisted
\* document: over an absent file, a file that is not JSON, or a document of
\* the wrong layout, the engine starts with the default seed.
C24_ConstructionNeverFails ==
    (stmt.kind = "__init__" /\ BadFile(stmt.file))
    => (result.success /\ databases = DefaultRegistry)

\* the row at position i of the table an UPDATE names is matched by its WHERE
Matched(s, i) ==
    LET row == TableOf(databases, current_db_name, s.table).rows[i]
    IN s.where.conds = <<>>
         \/ ValueEquals(row, s.where.conds[1].col, s.where.conds[1].val)

\* the value UPDATE stores for a SET literal on an INT column
Stored(lit) == IF lit = "NULL" THEN Null ELSE IntV(TextToInt(lit))

\* C25: UPDATE never asks the constraint checker: a SET that puts null into
\* a column that is not nullable, a duplicate into a primary key, or a
\* foreign-key value without target, succeeds all the same and stores the
\* SET values in every matched row, leaving the other rows as they were.
C25_UpdateIsUnchecked ==
    [][\A s \in FKUpdateStmts :
         HandleUpdate(s)
         => LET old == TableOf(databases, current_db_name, s.table).rows
                new == TableOf(databases', current_db_name, s.table).rows
            IN /\ result'.success
               /\ Len(new) = Len(old)
               /\ \A i \in DOMAIN old :
                     IF Matched(s, i)
                     THEN new[i][s.set[1].col] = Stored(s.set[1].val)
                     ELSE new[i] = old[i]]_vars

\* an UPDATE has left the primary key of p with a duplicate, a null, and a
\* row of c without target
C25_Witness ==
    LET p == TableOf(databases, current_db_name, "p").rows
        c == TableOf(databases, current_db_name, "c").rows
    IN /\ stmt.kind = "UPDATE" /\ result.success
       /\ \/ Len(p) = 2 /\ p[1]["id"] = p[2]["id"] /\ p[1]["id"] = IntV(1)
          \/ \E i \in DOMAIN p : p[i]["id"] = Null
          \/ \E i \in DOMAIN c : c[i]["r"] = IntV(2) /\ \A j \in DOMAIN p : p[j]["id"] # IntV(2)

\* the value v of a foreign-key column referencing ref has a target: the
\* referenced table exists and one of its rows holds v in the referenced column
HasTarget(dbs, db_name, ref, v) ==
    /\ HasTable(dbs, db_name, ref.tableId)
    /\ \E row \in Range(TableOf(dbs, db_name, ref.tableId).rows) :
          PyEq(Get(row, ref.columnId), v)

\* C26: in every reachable state every non-null value of a foreign-key
\* column has an equal value in the referenced column; DELETE on a
\* referenced table and DROP TABLE of it leave no referencing row without
\* its target.
C26_ReferentialIntegrity ==
    \A ti \in DOMAIN CurrentTables :
        LET table == CurrentTables[ti]
        IN \A j \in DOMAIN table.rows : \A c \in DOMAIN table.columns :
              LET col == table.columns[c]
                  v == Get(table.rows[j], col.name)
              IN (col.isForeignKey /\ col.references # NoRef /\ ~IsNull(v))
                    => HasTarget(databases, current_db_name, col.references, v)

\* C27: DELETE with a WHERE clause never removes a row that does not satisfy
\* the clause: when the clause is not a single equality (a comparison with >
\* or <) the statement either fails and changes nothing, or removes only
\* rows that satisfy it; it does not empty the table of its other rows.
C27_DeleteKeepsUnmatched ==
    [][\A s \in DeleteStmts :
          (HandleDelete(s) /\ s.where # NoWhere /\ s.where.conds[1].op # "=")
          => LET old == TableOf(databases, current_db_name, s.table).rows
                 new == TableOf(databases', current_db_name, s.table).rows
                 kept == {i \in DOMAIN old : ~RowSatisfies(old[i], s.where.conds[1])}
             IN \/ ~result'.success /\ databases' = databases
                \/ /\ \A i \in kept : old[i] \in Range(new)
                   /\ kept # {} => new # <<>>]_vars

\* the rows of a table meet its NOT NULL, UNIQUE and FOREIGN KEY constraints
RowsSatisfy(tables, table) ==
    /\ \A j \in DOMAIN table.rows : \A c \in DOMAIN table.columns :
          ~table.columns[c].nullable => ~IsNull(Get(table.rows[j], table.columns[c].name))
    /\ \A c \in DOMAIN table.columns :
          (table.columns[c].isPrimaryKey \/ table.columns[c].isUnique)
          => \A i, j \in DOMAIN table.rows :
                (i # j /\ ~IsNull(Get(table.rows[i], table.columns[c].name)))
                => ~PyEq(Get(table.rows[i], table.columns[c].name),
                         Get(table.rows[j], table.columns[c].name))
    /\ \A j \in DOMAIN table.rows : ~ForeignKeyFails(tables, table, table.rows[j])

\* C28: update-table on an existing table whose remapped rows satisfy the NOT
\* NULL, UNIQUE and FOREIGN KEY constraints of the new schema succeeds and
\* leaves the same number of rows in the same order, each value taken by
\* column id, else by column name, else the default or null; when a remapped
\* row violates a constraint the call fails and the table is unchanged.
C28_UpdateTableMigrates ==
    [][\A s \in UpdateTableRequests :
          (UpdateTable(s) /\ HasTable(databases, s.name, s.table)
             /\ ~MigrateRaises(TableOf(databases, s.name, s.table), s.schema))
          => LET tables == databases[DbIndex(databases, s.name)].tables
                 old == TableOf(databases, s.name, s.table)
                 remapped == [r \in DOMAIN old.rows |-> MigrateRow(old, s.schema, old.rows[r])]
             IN IF RowsSatisfy(tables, [s.schema EXCEPT !.rows = remapped])
                THEN /\ result'.success
                     /\ TableOf(databases', s.name, s.schema.name).rows = remapped
                ELSE ~result'.success /\ databases' = databases]_vars

\* the numbers the rows hold in column c, nulls left out
NumbersIn(rows, c) == {rows[i][c].n : i \in {j \in DOMAIN rows : ~IsNull(rows[j][c])}}

\* C29: INSERT that omits the auto-increment column stores 1 in it when no
\* row holds a non-null value there, else the greatest such value plus 1;
\* the stored value differs from every value the column holds at that
\* point, also for each successive row of an INSERT of several rows, so
\* that the statement never fails on a duplicate key.
C29_AutoIncrementIsMaxPlusOne ==
    [][\A s \in InsertStmts :
          ("k" \notin Range(s.cols) /\ HandleInsert(s))
          => LET old == TableOf(databases, current_db_name, s.table).rows
                 new == TableOf(databases', current_db_name, s.table).rows
             IN /\ result'.message # MsgDuplicate
                /\ result'.success => Len(new) = Len(old) + Len(s.tuples)
                /\ \A j \in (Len(old) + 1)..Len(new) :
                      LET ids == NumbersIn(SubSeq(new, 1, j - 1), "k")
                      IN /\ new[j]["k"].t = "int"
                         /\ ids = {} => new[j]["k"].n = 1
                         /\ ids # {} => \E m \in ids : /\ \A x \in ids : x <= m
                                                       /\ new[j]["k"].n = m + 1
                         /\ new[j]["k"].n \notin ids]_vars

\* an INSERT of two rows without k into the empty table has numbered them 1 and 2
C29_Witness ==
    LET rows == TableOf(databases, current_db_name, "t").rows
    IN /\ stmt.kind = "INSERT" /\ result.success /\ result.affectedRows = 2
       /\ Len(rows) = 2
       /\ rows[1]["k"] = IntV(1) /\ rows[2]["k"] = IntV(2)

\* the row satisfies the clause read as the fold of its conditions from left
\* to right: ((c1 k1 c2) k2 c3)
RECURSIVE SatisfiesFold(_, _, _)
SatisfiesFold(row, where, n) ==
    IF n = 1 THEN RowSatisfies(row, where.conds[1])
    ELSE IF where.links[n - 1] = "AND"
         THEN SatisfiesFold(row, where, n - 1) /\ RowSatisfies(row, where.conds[n])
         ELSE SatisfiesFold(row, where, n - 1) \/ RowSatisfies(row, where.conds[n])

\* C30: on a WHERE clause of three conditions joined by AND and OR the filter
\* returns the rows that satisfy the left-to-right fold of the conditions:
\* all three when both connectives are AND, at least one of the three when
\* both are OR.
C30_WhereFoldsLeftToRight ==
    (stmt.kind = "SELECT" /\ result.success /\ WhereIsSeen(stmt) /\ Len(stmt.where.conds) = 3)
    => Range(result.data)
         = {ScannedRows[i] : i \in {j \in DOMAIN ScannedRows :
                                       SatisfiesFold(ScannedRows[j], stmt.where, 3)}}

\* the pairs (position in A, position in B) whose join columns read the same
MatchingPairs ==
    LET A == TableOf(databases, current_db_name, stmt.table).rows
        B == TableOf(databases, current_db_name, stmt.join.table).rows
    IN {p \in (DOMAIN A) \X (DOMAIN B) :
          PyStr(A[p[1]][stmt.join.left_col]) = PyStr(B[p[2]][stmt.join.right_col])}

\* the place of a pair in left-major order
PairRank(p) ==
    Cardinality({q \in MatchingPairs : q[1] < p[1] \/ (q[1] = p[1] /\ q[2] <= p[2])})

\* C31: an INNER JOIN of A with B ON a = b returns, in left-major order,
\* exactly one merged row for each pair of a row of A and a row of B whose
\* join columns have the same string form (the number 1 matches the text
\* '1'), and no other row.
C31_InnerJoinPairs ==
    JoinSelect("INNER")
    => LET A == TableOf(databases, current_db_name, stmt.table).rows
           B == TableOf(databases, current_db_name, stmt.join.table).rows
       IN /\ Len(result.data) = Cardinality(MatchingPairs)
          /\ \A p \in MatchingPairs : result.data[PairRank(p)] = Merge(A[p[1]], B[p[2]])

\* an INNER JOIN has paired the number 1 with the text '1' and left a row of
\* each table without partner
C31_Witness ==
    /\ JoinSelect("INNER") /\ stmt.table = "ja"
    /\ \E k \in DOMAIN result.data :
          result.data[k]["a"] = IntV(1) /\ result.data[k]["b"] = StrV("1")
    /\ Len(TableOf(databases, current_db_name, "ja").rows) = 2
    /\ Len(TableOf(databases, current_db_name, "jb").rows) = 2
    /\ Len(result.data) = 1

\* the key the ordering gives a row: its value in c, a null counting as the
\* empty string (ascending) or as a maximal sentinel (descending)
OrderKey(row) == SortKey(row, stmt.order_col, stmt.order_dir)

\* key k1 may stand before key k2 in the ordering of the statement
InOrder(k1, k2) ==
    \/ k1 = k2
    \/ IF stmt.order_dir = "ASC"
       THEN (k1 = StrV("") \/ (k2 # StrV("") /\ KeyLess(k1, k2)))
       ELSE (k1 = StrV(Sentinel) \/ (k2 # StrV(Sentinel) /\ KeyLess(k2, k1)))

\* C32: SELECT ... ORDER BY c [ASC|DESC] succeeds and returns a permutation
\* of the rows the query returns without ORDER BY, ordered by the value of c
\* (ascending unless DESC is given), rows with equal keys keeping their
\* relative order and rows with a null c placed as the empty string
\* (ascending) or a maximal sentinel (descending), for text and for numeric
\* columns alike.
C32_OrderBySorts ==
    (stmt.kind = "SELECT ORDER BY" /\ HasTable(databases, current_db_name, stmt.table))
    => /\ result.success
       /\ \E f \in [DOMAIN ScannedRows -> DOMAIN ScannedRows] :
             /\ \A i, j \in DOMAIN f : i # j => f[i] # f[j]
             /\ DOMAIN result.data = DOMAIN f
             /\ \A k \in DOMAIN f : result.data[k] = ScannedRows[f[k]]
             /\ \A k, m \in DOMAIN f :
                   k < m => /\ InOrder(OrderKey(result.data[k]), OrderKey(result.data[m]))
                            /\ OrderKey(result.data[k]) = OrderKey(result.data[m])
                                  => f[k] < f[m]

\* the numbers the rows of the table hold in column c, as a list
RECURSIVE NumbersOf(_, _)
NumbersOf(rows, c) ==
    IF rows = <<>> THEN <<>>
    ELSE (IF IsNumber(Get(Head(rows), c)) THEN <<Get(Head(rows), c).n>> ELSE <<>>)
            \o NumbersOf(Tail(rows), c)

\* C33: SUM(col) in the select list makes the SELECT return exactly one row,
\* keyed SUM(col), whose value is the sum of every non-null numeric value of
\* col (positive, zero or negative) among the rows that reach aggregation,
\* values that are not numbers being left out without error and the value
\* being 0 when there is none; AVG(col) is that sum divided by the count of
\* the same values.
C33_SumAddsEveryNumber ==
    (stmt.kind = "SELECT AGG" /\ HasTable(databases, current_db_name, stmt.table))
    => LET label == stmt.func \o "(" \o stmt.col \o ")"
           values == NumbersOf(ScannedRows, stmt.col)
           total == SumOf(values)
       IN /\ result.success
          /\ Len(result.data) = 1
          /\ DOMAIN result.data[1] = {label}
          /\ LET v == result.data[1][label]
                 den == IF v.t = "float" THEN v.d ELSE 1
             IN IF stmt.func = "SUM" \/ values = <<>>
                THEN v.n = total * den
                ELSE v.n * Len(values) = total * den

\* C34: the Group By operator applied to a row list and a column c returns
\* exactly one row per distinct value of c in the list (null being one key),
\* namely the first row in input order that holds that value, with the
\* groups in order of first occurrence; it computes no aggregate per group.
C34_GroupByKeepsFirstRows ==
    (stmt.kind = "SELECT GROUP BY" /\ HasTable(databases, current_db_name, stmt.table))
    => LET c == stmt.group_col
           firsts == {i \in DOMAIN ScannedRows :
                        \A j \in 1..(i - 1) : ScannedRows[j][c] # ScannedRows[i][c]}
       IN /\ result.success
          /\ result.data = SelectIdx(ScannedRows, firsts)
          /\ \A i \in DOMAIN ScannedRows :
                \E k \in DOMAIN result.data : result.data[k][c] = ScannedRows[i][c]
          /\ \A k, m \in DOMAIN result.data : k # m => result.data[k][c] # result.data[m][c]

\* GROUP BY has answered one row for two rows that share a null key and
\* differ in the other column
C34_Witness ==
    LET rows == TableOf(databases, current_db_name, "s").rows
    IN /\ stmt = GroupStmt("s", "s") /\ result.success
       /\ Len(rows) = 2 /\ rows[1]["s"] = Null /\ rows[2]["s"] = Null
       /\ rows[1]["n"] # rows[2]["n"]
       /\ result.data = <<rows[1]>>

SelectKinds == {"SELECT", "SELECT ORDER BY", "SELECT AGG", "SELECT GROUP BY", "SELECT COUNT(*)"}

\* C35: a SELECT statement, whatever its JOIN, WHERE, ORDER BY, GROUP BY,
\* LIMIT and aggregates, leaves the registry unchanged: no stored row gains,
\* loses or changes a value (a row lacking a declared column is filled in
\* the result only), ORDER BY leaves the stored order, and the selector and
\* the persisted document stay as they were.
C35_SelectChangesNothing ==
    [][stmt'.kind \in SelectKinds
         => /\ databases' = databases
            /\ current_db_name' = current_db_name
            /\ storage' = storage]_vars

\* ORDER BY has answered the rows of f in another order than the stored one,
\* the first stored row still lacking column s that its answer holds
C35_Witness ==
    /\ stmt.kind = "SELECT ORDER BY" /\ result.success
    /\ LET rows == TableOf(databases, current_db_name, "f").rows
       IN /\ Len(rows) = 2
          /\ "s" \notin DOMAIN rows[1]
          /\ result.data[1] = rows[2]
          /\ "s" \in DOMAIN result.data[2]

\* C36: for every column type and every input text, NULL and the boolean
\* literals included, cell-update stores into the addressed cell the scalar
\* that an INSERT of that text into that column would store, and it makes no
\* NOT NULL, UNIQUE or FOREIGN KEY check.
C36_CellStoresAsInsert ==
    [][\A s \in CellEdits :
          (UpdateCell(s) /\ s.row_index < Len(TableOf(databases, s.name, s.table).rows))
          => LET table == TableOf(databases', s.name, s.table)
             IN /\ result'.success
                /\ table.rows[s.row_index + 1][s.column]
                     = CoerceInsert(table.columns, s.column, s.value)]_vars

\* C37: after reset is invoked for an existing database named n, the registry
\* still holds a database named n, that database has no tables, and the
\* selector names it.
C37_ResetKeepsDatabase ==
    (stmt.kind = "reset" /\ result.success)
    => /\ HasDatabase(databases, stmt.name)
       /\ databases[DbIndex(databases, stmt.name)].tables = <<>>
       /\ current_db_name = stmt.name

\* C38: CREATE TABLE whose column definitions each use one of the base types
\* VARCHAR, INT, DECIMAL, BOOLEAN, TIMESTAMP, DATE, DATETIME succeeds and
\* records for every column exactly its declared base type; a definition
\* with none of these types fails as an unsupported type and creates no table.
C38_CreateTableRecordsTypes ==
    [][\A s \in TypeCreateStmts :
          (~HasTable(databases, current_db_name, s.table) /\ HandleCreateTable(s))
          => IF \A i \in DOMAIN s.columns : s.columns[i].type \in Range(DataTypes)
             THEN /\ result'.success
                  /\ HasTable(databases', current_db_name, s.table)
                  /\ LET columns == TableOf(databases', current_db_name, s.table).columns
                     IN /\ Len(columns) = Len(s.columns)
                        /\ \A i \in DOMAIN columns : columns[i].type = s.columns[i].type
             ELSE /\ ~result'.success
                  /\ result'.message = MsgUnsupportedType
                  /\ databases' = databases]_vars

\* C39: of two requests in flight together, the handling of one (selector
\* assignment, statement execution, persistence, response) completes before
\* any step of the other runs: no two handlers are under way at once, the
\* selector names the database of the request whose statement is about to
\* run, every statement has run against the database named in its own request,
\* and the stored document is behind the registry only while the one handler
\* that changed it has still to write it.
Handled(reqs) == {r \in reqs : r.pc # "received"}

C39_RequestsRunOneAtATime ==
    /\ Cardinality(Handled(requests)) <= 1
    /\ \A r \in Handled(requests) :
          /\ r.pc = "selected" => current_db_name = r.name
          /\ r.pc \in {"executed", "persisted"} => r.db = r.name
    /\ storage # databases => \E r \in requests : r.pc = "executed" /\ r.save

\* two requests for different databases are in flight, and the statement of
\* one has run while the other waits
C39_Witness ==
    \E r1, r2 \in requests :
        /\ r1.name # r2.name
        /\ HasDatabase(databases, r2.name)
        /\ r1.pc = "executed" /\ r1.save
        /\ r2.pc = "received"

====
